---- MODULE Spec2Model ----
(***************************************************************************)
(* near-testing: the sandbox lifecycle (SandboxContext / NearSandbox), the *)
(* environment overlay of run_near_cli, the MockRPC dispatcher with its    *)
(* assertions, add_account and patch_urlopen, the near-cli output parser   *)
(* with call_contract and TransactionResult.events, and                    *)
(* ContractDeployer.deploy.                                                *)
(*                                                                         *)
(* The components share no state, so each has its own specification:       *)
(*   SpecSandbox  start() / stop() of one sandbox instance and its node    *)
(*   SpecScope    a sandbox inside a with statement / sandbox_context()    *)
(*   SpecCli      run_near_cli of NearSandbox and of SandboxContext        *)
(*   SpecMock     add_response / query / reset of one MockRPC              *)
(*   SpecAssert   query / reset / assert_called / assert_not_called        *)
(*   SpecAccount  add_account / query                                      *)
(*   SpecPatch    the MockRPC scope: patch_urlopen, __exit__, urlopen      *)
(*   SpecTx       _parse_cli_output, call_contract, events                 *)
(*   SpecDeploy   ContractDeployer.deploy                                  *)
(*   SpecHelpers  assert_transaction_success / assert_transaction_failure  *)
(*   SpecEvents   assert_event_emitted                                     *)
(***************************************************************************)
EXTENDS Integers, Sequences, FiniteSets, TLC

VARIABLES
    \* ---- sandbox instance -------------------------------------------------
    owns_home,    \* self._owns_home: constructed without a home_dir
    process,      \* self._process: 0 for None, else an index into procs
    tmp_dir,      \* self._tmp_dir is not None
    home_exists,  \* the directory self.home_dir names exists on disk
    procs,        \* node processes spawned so far; returncode = {} while alive,
                  \* ready once a status probe got a result from it
    pc,           \* where the test's thread is: "idle" or inside start()
    elapsed,      \* time.monotonic() - (deadline - startup_timeout), in ticks
    ret,          \* how the last start()/stop() call ended
    nInit,        \* init commands run so far
    last_init,    \* CompletedProcess of the last init command
    init_failed,  \* history: some init command of this instance exited non-zero
    nProbe,       \* status probes issued so far
    \* ---- run_near_cli -----------------------------------------------------
    os_environ,   \* os.environ of the test process
    cmd_env,      \* env= handed to subprocess.run by the last run_near_cli
    cmd_extra,    \* env_extra of the last run_near_cli
    \* ---- MockRPC ----------------------------------------------------------
    responses,    \* self._responses
    calls,        \* self._calls
    out,          \* how the last MockRPC operation ended
    \* ---- MockRPC.patch_urlopen ---------------------------------------------
    urlopen,      \* urllib.request.urlopen: 0 the real one, i the mock of patch i
    patchers,     \* the patch objects made so far: what each saved, if started
    patches,      \* self._patches, as indices into patchers
    scope,        \* the `with MockRPC()` block: "none", "open", how it exited
    before_first, \* history: urlopen before the first patch_urlopen of the scope
    reply,        \* what the last urlopen(req) call gave
    \* ---- transactions ------------------------------------------------------
    cli_result,   \* CompletedProcess of the last near-cli command
    tx,           \* the TransactionResult last returned, or the exception
    evs,          \* what tx.events last gave
    \* ---- ContractDeployer.deploy -------------------------------------------
    dep_pc,       \* where deploy() is: "idle", "deploying", "initing"
    dep_in,       \* the call's inputs: the artifact exists, init_method
    cmds,         \* the near-cli commands this call has issued, in order
    deploy_out,   \* CompletedProcess of the deploy command
    init_out,     \* CompletedProcess of the init call
    dep,          \* how the last deploy() ended
    \* ---- assertion helpers ---------------------------------------------------
    given,        \* the TransactionResult handed to the helpers
    asserted,     \* how the last call of each helper ended
    \* ---- sandbox as a scoped resource ---------------------------------------
    sb_scope      \* the with statement / sandbox_context() around the sandbox

sandboxVars == <<owns_home, process, tmp_dir, home_exists, procs, pc, elapsed,
                 ret, nInit, last_init, init_failed, nProbe>>
cliVars == <<os_environ, cmd_env, cmd_extra>>
mockVars == <<responses, calls, out>>
patchVars == <<urlopen, patchers, patches, scope, before_first, reply>>
\* what the sandbox, run_near_cli and the MockRPC dispatcher never touch
txVars == <<cli_result, tx, evs>>
depVars == <<dep_pc, dep_in, cmds, deploy_out, init_out, dep>>
helperVars == <<given, asserted>>
scopeVars == <<sb_scope>>
toolVars == <<patchVars, txVars, depVars, helperVars, scopeVars>>
vars == <<sandboxVars, cliVars, mockVars, toolVars>>

-----------------------------------------------------------------------------
(* Bounds *)

\* node processes one instance may spawn in a run of the model
MaxProcs == 2
\* init commands one instance may run in a run of the model
MaxInits == 3
\* startup_timeout, in ticks of the 0.5 s poll interval
StartupTicks == 2
\* the longest a status probe blocks, in ticks (urlopen timeout)
ProbeTicks == 1

\* exit codes a process may end with by itself
ExitCodes == {0, 1}
\* returncode after SIGTERM / SIGKILL (Popen reports -signal)
TermCode == {-15}
KillCode == {-9}
\* stderr texts of the init command
Stderrs == {"", "init: boom"}

-----------------------------------------------------------------------------
(* Sandbox: results of a call *)

\* A call's end: kind "return" or "raise"; what names the return statement or
\* the raise; code and text are what the raised message embeds.
Ret(op, kind, what, code, text) ==
    [op |-> op, kind |-> kind, what |-> what, code |-> code, text |-> text]

NoCall == Ret("none", "none", "", {}, "")

\* The exception class of each raise of start() and stop().
ErrClass(what) ==
    CASE what \in {"neard_missing", "init_failed", "premature_exit", "not_ready"}
              -> "SandboxStartupError"
      [] what = "undecodable" -> "JSONDecodeError"
      [] what = "kill_timeout" -> "TimeoutExpired"
      [] OTHER -> "none"

\* self._process.poll() is None
Alive(p) == procs[p].returncode = {}

\* is_running: the handle exists and the process has not exited
is_running == process # 0 /\ Alive(process)

-----------------------------------------------------------------------------
(* Sandbox: start() *)

\* start(): "if self._process is not None: return self"
AlreadyStarted_never == FALSE

AlreadyStarted == process # 0

\* _init_sandbox: "if result.returncode != 0: raise SandboxStartupError"
InitFails_never(rc) == FALSE

InitFails(rc) == rc # 0

\* start() on an instance that holds a process handle returns at once.
StartNoop ==
    /\ UNCHANGED <<cliVars, mockVars, toolVars>>
    /\ pc = "idle"
    /\ AlreadyStarted
    /\ ret' = Ret("start", "return", "already_running", {}, "")
    /\ UNCHANGED <<owns_home, process, tmp_dir, home_exists, procs, pc, elapsed,
                   nInit, last_init, init_failed, nProbe>>

\* _init_sandbox: neither neard nor near-sandbox is on PATH.
StartNeardMissing ==
    /\ UNCHANGED <<cliVars, mockVars, toolVars>>
    /\ pc = "idle"
    /\ ~AlreadyStarted
    /\ ret' = Ret("start", "raise", "neard_missing", {}, "")
    /\ UNCHANGED <<owns_home, process, tmp_dir, home_exists, procs, pc, elapsed,
                   nInit, last_init, init_failed, nProbe>>

\* _init_sandbox raises on the init command's exit code; nothing is spawned.
InitRaises(rc, stderr) ==
    /\ ret' = Ret("start", "raise", "init_failed", {rc}, stderr)
    /\ init_failed' = TRUE
    /\ UNCHANGED <<process, procs, pc, elapsed, home_exists>>

\* _init_sandbox returned; _start_node: Popen stores the new handle, and
\* _wait_for_ready sets its deadline.
SpawnNode ==
    /\ Len(procs) < MaxProcs
    /\ procs' = Append(procs, [returncode |-> {}, ready |-> FALSE])
    /\ process' = Len(procs) + 1
    /\ home_exists' = TRUE
    /\ elapsed' = 0
    /\ pc' = "loop"
    /\ ret' = Ret("start", "running", "", {}, "")
    /\ UNCHANGED init_failed

\* start() on an instance without a handle: the init command runs and exits
\* with rc; the node is spawned only after a zero exit.
StartInit ==
    /\ UNCHANGED <<cliVars, mockVars, toolVars>>
    /\ pc = "idle"
    /\ ~AlreadyStarted
    /\ nInit < MaxInits
    /\ \E rc \in ExitCodes, stderr \in Stderrs :
          /\ nInit' = nInit + 1
          /\ last_init' = [returncode |-> {rc}, stderr |-> stderr]
          /\ IF InitFails(rc) THEN InitRaises(rc, stderr) ELSE SpawnNode
    /\ UNCHANGED <<owns_home, tmp_dir, nProbe>>

\* _wait_for_ready, head of the loop: the deadline test, then poll().
LoopHead ==
    /\ UNCHANGED <<cliVars, mockVars, toolVars>>
    /\ pc = "loop"
    /\ IF ~(elapsed < StartupTicks)
         THEN /\ ret' = Ret("start", "raise", "not_ready", {}, "")
              /\ pc' = "idle"
         ELSE IF ~Alive(process)
         THEN /\ ret' = Ret("start", "raise", "premature_exit",
                            procs[process].returncode, "")
              /\ pc' = "idle"
         ELSE /\ pc' = "probe"
              /\ UNCHANGED ret
    /\ UNCHANGED <<owns_home, process, tmp_dir, home_exists, procs, elapsed,
                   nInit, last_init, init_failed, nProbe>>

\* What a status probe can meet. Only this sandbox's node serves rpc_url, so
\* a response presupposes a live node; a refused connection is always possible.
ProbeOutcomes ==
    IF Alive(process) THEN {"ready", "no_result", "undecodable", "refused"}
                      ELSE {"refused"}

\* _wait_for_ready, body of the loop: one urlopen of the status request, then
\* time.sleep(0.5) unless the probe ended the call.
Probe ==
    /\ UNCHANGED <<cliVars, mockVars, toolVars>>
    /\ pc = "probe"
    /\ nProbe' = nProbe + 1
    /\ \E o \in ProbeOutcomes, d \in 0..ProbeTicks :
          CASE o = "ready" ->
                  /\ ret' = Ret("start", "return", "ready", {}, "")
                  /\ pc' = "idle"
                  /\ elapsed' = elapsed + d
                  /\ procs' = [procs EXCEPT ![process].ready = TRUE]
            [] o = "undecodable" ->
                  /\ ret' = Ret("start", "raise", "undecodable", {}, "")
                  /\ pc' = "idle"
                  /\ elapsed' = elapsed + d
                  /\ UNCHANGED procs
            [] OTHER ->
                  /\ pc' = "loop"
                  /\ elapsed' = elapsed + d + 1
                  /\ UNCHANGED <<ret, procs>>
    /\ UNCHANGED <<owns_home, process, tmp_dir, home_exists,
                   nInit, last_init, init_failed>>

\* The node process ends by itself, whatever the test's thread is doing.
ProcessExits ==
    /\ UNCHANGED <<cliVars, mockVars, toolVars>>
    /\ \E p \in 1..Len(procs), c \in ExitCodes :
          /\ Alive(p)
          /\ procs' = [procs EXCEPT ![p].returncode = {c}]
    /\ UNCHANGED <<owns_home, process, tmp_dir, home_exists, pc, elapsed, ret,
                   nInit, last_init, init_failed, nProbe>>

-----------------------------------------------------------------------------
(* Sandbox: stop() *)

\* "if self._tmp_dir is not None: self._tmp_dir.cleanup(); self._tmp_dir = None"
ReleaseTmp ==
    IF tmp_dir
      THEN tmp_dir' = FALSE /\ home_exists' = FALSE
      ELSE UNCHANGED <<tmp_dir, home_exists>>

\* How terminate / wait(10) / kill / wait(5) can go for the held process.
StopOutcomes ==
    IF Alive(process) THEN {"graceful", "killed", "kill_timeout"}
                      ELSE {"exited"}

\* stop() on an instance without a handle: only the directory is released.
StopNoProcess ==
    /\ UNCHANGED <<cliVars, mockVars, toolVars>>
    /\ pc = "idle"
    /\ process = 0
    /\ ReleaseTmp
    /\ ret' = Ret("stop", "return", "", {}, "")
    /\ UNCHANGED <<owns_home, process, procs, pc, elapsed,
                   nInit, last_init, init_failed, nProbe>>

\* stop() on an instance with a handle. wait(timeout=5) raising
\* TimeoutExpired leaves stop() before "self._process = None" and before
\* the directory is touched.
StopProcess ==
    /\ UNCHANGED <<cliVars, mockVars, toolVars>>
    /\ pc = "idle"
    /\ process # 0
    /\ \E o \in StopOutcomes :
         IF o = "kill_timeout"
           THEN /\ ret' = Ret("stop", "raise", "kill_timeout", {}, "")
                /\ UNCHANGED <<process, procs, tmp_dir, home_exists>>
           ELSE /\ procs' = [procs EXCEPT ![process].returncode =
                               CASE o = "graceful" -> TermCode
                                 [] o = "killed" -> KillCode
                                 [] OTHER -> @]
                /\ process' = 0
                /\ ReleaseTmp
                /\ ret' = Ret("stop", "return", "", {}, "")
    /\ UNCHANGED <<owns_home, pc, elapsed, nInit, last_init, init_failed, nProbe>>

NextSandbox ==
    \/ StartNoop
    \/ StartNeardMissing
    \/ StartInit
    \/ LoopHead
    \/ Probe
    \/ ProcessExits
    \/ StopNoProcess
    \/ StopProcess

-----------------------------------------------------------------------------
(* Sandbox as a scoped resource: `with SandboxContext()` / `with           *)
(* NearSandbox()` (__enter__ / __exit__) and sandbox_context()             *)

\* Where the statement is: "none" before it, "start" while __enter__ or the
\* generator runs start(), "body" inside the block, "stop" while __exit__ or
\* the finally clause runs stop(), "left" after it.
Scoped(form, at) == [form |-> form, at |-> at]

NotScoped == Scoped("none", "none")

\* the two ways a sandbox is used as a scope; sandbox_context() constructs
\* the instance without a home_dir
ScopeForms == IF owns_home THEN {"with", "sandbox_context"} ELSE {"with"}

\* Where a start() that raised leaves the statement: an exception out of
\* __enter__ leaves a with statement without __exit__ being run, while
\* sandbox_context() calls start() inside its try block.
AfterStartRaised(form) == IF form = "with" THEN "left" ELSE "stop"

\* the statement is reached with a sandbox just constructed
ScopeEnter ==
    /\ sb_scope = NotScoped
    /\ ret = NoCall
    /\ \E form \in ScopeForms : sb_scope' = Scoped(form, "start")
    /\ UNCHANGED <<sandboxVars, cliVars, mockVars, patchVars, txVars, depVars,
                   helperVars>>

\* __enter__: "return self.start()" / sandbox_context: "ctx.start()"
ScopeStart ==
    /\ sb_scope.at = "start"
    /\ ret = NoCall
    /\ (StartNeardMissing \/ StartInit)

\* start() has returned or raised
ScopeStarted ==
    /\ sb_scope.at = "start"
    /\ pc = "idle"
    /\ ret.op = "start"
    /\ sb_scope' = [sb_scope EXCEPT
                       !.at = IF ret.kind = "return" THEN "body"
                              ELSE AfterStartRaised(sb_scope.form)]
    /\ UNCHANGED <<sandboxVars, cliVars, mockVars, patchVars, txVars, depVars,
                   helperVars>>

\* the block ends, by falling off its end or by an exception
ScopeBodyEnds ==
    /\ sb_scope.at = "body"
    /\ sb_scope' = [sb_scope EXCEPT !.at = "stop"]
    /\ UNCHANGED <<sandboxVars, cliVars, mockVars, patchVars, txVars, depVars,
                   helperVars>>

\* __exit__: "self.stop()" / sandbox_context: "finally: ctx.stop()"
ScopeStop ==
    /\ sb_scope.at = "stop"
    /\ ret.op # "stop"
    /\ (StopNoProcess \/ StopProcess)

\* stop() has returned or raised
ScopeLeft ==
    /\ sb_scope.at = "stop"
    /\ ret.op = "stop"
    /\ sb_scope' = [sb_scope EXCEPT !.at = "left"]
    /\ UNCHANGED <<sandboxVars, cliVars, mockVars, patchVars, txVars, depVars,
                   helperVars>>

NextScope ==
    \/ ScopeEnter
    \/ ScopeStart
    \/ LoopHead
    \/ Probe
    \/ ProcessExits
    \/ ScopeStarted
    \/ ScopeBodyEnds
    \/ ScopeStop
    \/ ScopeLeft

-----------------------------------------------------------------------------
(* run_near_cli *)

\* self.rpc_url and str(self.home_dir) of the instance
RpcUrl == "http://localhost:3030"
HomeDir == "/tmp/near-sandbox-x"

\* The three variables run_near_cli computes, and one it does not.
ComputedKeys == {"NEAR_ENV", "NEAR_CLI_LOCALNET_RPC_SERVER_URL", "NEAR_HOME"}
EnvKeys == ComputedKeys \cup {"PATH"}

\* A Python dict of strings: a function on the keys it holds.
EnvDicts(val) == UNION {[D -> {val}] : D \in SUBSET EnvKeys}

\* dict.update / item assignment: the right operand's keys win
Updated(base, upd) ==
    [k \in DOMAIN base \cup DOMAIN upd |->
        IF k \in DOMAIN upd THEN upd[k] ELSE base[k]]

\* the values run_near_cli assigns
Computed ==
    [k \in ComputedKeys |->
        CASE k = "NEAR_ENV" -> "localnet"
          [] k = "NEAR_CLI_LOCALNET_RPC_SERVER_URL" -> RpcUrl
          [] OTHER -> HomeDir]

\* env_extra: None, or a dict (an empty dict is falsy, as None is)
NoExtra == [tag |-> "none", val |-> <<>>]
Extras == {NoExtra} \cup {[tag |-> "dict", val |-> d] : d \in EnvDicts("caller")}

\* NearSandbox.run_near_cli: the computed values are assigned first and
\* env_extra is applied on top of them.
SandboxEnv(environ, env_extra) ==
    LET env == Updated(environ, Computed)
    IN  IF env_extra.tag = "dict" /\ DOMAIN env_extra.val # {}
          THEN Updated(env, env_extra.val)
          ELSE env

\* SandboxContext.run_near_cli: no env_extra parameter
ContextEnv(environ) == Updated(environ, Computed)

RunNearCli ==
    /\ \E x \in Extras :
          /\ cmd_extra' = x
          /\ cmd_env' = [ran |-> "NearSandbox", env |-> SandboxEnv(os_environ, x)]
    /\ UNCHANGED <<os_environ, sandboxVars, mockVars, toolVars>>

RunNearCliContext ==
    /\ cmd_extra' = NoExtra
    /\ cmd_env' = [ran |-> "SandboxContext", env |-> ContextEnv(os_environ)]
    /\ UNCHANGED <<os_environ, sandboxVars, mockVars, toolVars>>

NextCli == RunNearCli \/ RunNearCliContext

-----------------------------------------------------------------------------
(* MockRPC: values *)

\* registered entries / recorded calls one MockRPC may hold in a run of the model
MaxEntries == 2
MaxCalls == 2

Methods == {"query", "tx"}
Results == {"R1", "R2"}

\* A Python value that is None, a dict or a non-empty list, as far as query
\* tells them apart: the tag, and the dict's items.
PNone == [tag |-> "none", val |-> <<>>]
PList == [tag |-> "list", val |-> <<>>]
PDict(d) == [tag |-> "dict", val |-> d]

\* params a caller passes
Params == {PNone, PList, PDict(<<>>), PDict("a" :> 2), PDict(("a" :> 1) @@ ("b" :> 2))}
\* match= of add_response
Matches == {PNone, PDict("a" :> 1)}
\* error= of add_response
Errors == {PNone, PDict(<<>>), PDict("message" :> "boom"), PDict("code" :> "E1")}

\* The entries add_response is called with: every combination for "query",
\* and one plain entry of a second method.
Entries ==
    [method : {"query"}, result : Results, match : Matches, error : Errors]
    \cup {[method |-> "tx", result |-> "R2", match |-> PNone, error |-> PNone]}

\* The calls query is called with: every params for "query", and one call of
\* the second method.
QueryInputs == ({"query"} \X Params) \cup {<<"tx", PNone>>}

\* bool(x) of Python
Truthy(x) == x.tag = "list" \/ (x.tag = "dict" /\ DOMAIN x.val # {})

\* "params = params or {}"
OrEmpty(params) == IF Truthy(params) THEN params ELSE PDict(<<>>)

\* _is_subset(subset, superset)
is_subset_keys(subset, superset) ==
    \A key \in DOMAIN subset : key \in DOMAIN superset

is_subset(subset, superset) ==
    \A key \in DOMAIN subset :
        key \in DOMAIN superset /\ superset[key] = subset[key]

\* "params if isinstance(params, dict) else {}"
DictOrEmpty(params) == IF params.tag = "dict" THEN params.val ELSE <<>>

\* resp['error'].get('message', 'unknown')
ErrorMessage(error) ==
    IF "message" \in DOMAIN error.val THEN error.val["message"] ELSE "unknown"

\* How query's loop ends: "return resp['result']", or one of its two raises
\* with what the raised message embeds (the mock error's message, or the
\* method and params of the call).
Returned(result) ==
    [kind |-> "return", result |-> result, err |-> "", msg |-> "",
     msg_method |-> "", msg_params |-> PNone]
MockError(msg) ==
    [kind |-> "raise", result |-> "", err |-> "mock_error", msg |-> msg,
     msg_method |-> "", msg_params |-> PNone]
NoMock(method, params) ==
    [kind |-> "raise", result |-> "", err |-> "no_mock", msg |-> "",
     msg_method |-> method, msg_params |-> params]

\* How the last MockRPC operation ended, with the arguments it was called with.
Out(op, end, method, params) ==
    [op |-> op, kind |-> end.kind, result |-> end.result, err |-> end.err,
     msg |-> end.msg, msg_method |-> end.msg_method, msg_params |-> end.msg_params,
     method |-> method, params |-> params]

\* operations that return nothing of interest (None, or self)
Done(op) == Out(op, Returned(""), "", PNone)

\* "self._calls.append({'method': method, 'params': params})"
RecordCall_skip(log, method, params) == log

RecordCall(log, method, params) ==
    Append(log, [method |-> method, params |-> params])

\* the two "continue" tests of query's loop
Skips_nomatch(resp, method, params) ==
    resp.method # method

Skips(resp, method, params) ==
    \/ resp.method # method
    \/ /\ Truthy(resp.match)
       /\ ~is_subset(resp.match.val, DictOrEmpty(params))

\* query's loop over self._responses from entry i on; params is the
\* defaulted value.
RECURSIVE Scan(_, _, _, _)
Scan(rs, i, method, params) ==
    IF i > Len(rs) THEN NoMock(method, params)
    ELSE IF Skips(rs[i], method, params) THEN Scan(rs, i + 1, method, params)
    ELSE IF Truthy(rs[i].error)
      THEN MockError(ErrorMessage(rs[i].error))
      ELSE Returned(rs[i].result)

\* the same loop taken from the last entry down
RECURSIVE ScanDown(_, _, _, _)
ScanDown(rs, i, method, params) ==
    IF i < 1 THEN NoMock(method, params)
    ELSE IF Skips(rs[i], method, params) THEN ScanDown(rs, i - 1, method, params)
    ELSE IF Truthy(rs[i].error)
      THEN MockError(ErrorMessage(rs[i].error))
      ELSE Returned(rs[i].result)

Dispatch_last(rs, method, params) == ScanDown(rs, Len(rs), method, params)

\* query's loop and the raise after it
Dispatch(rs, method, params) == Scan(rs, 1, method, params)

-----------------------------------------------------------------------------
(* MockRPC: operations *)

\* add_response(method, result, match=, error=)
AddResponse ==
    /\ Len(responses) < MaxEntries
    /\ \E e \in Entries :
          responses' = Append(responses,
              [method |-> e.method, result |-> e.result, match |-> e.match,
               error |-> e.error])
    /\ out' = Done("add_response")
    /\ UNCHANGED <<calls, sandboxVars, cliVars, toolVars>>

\* query(method, params)
Query ==
    /\ Len(calls) < MaxCalls
    /\ \E q \in QueryInputs :
          LET method == q[1]
              params == q[2]
          IN  /\ calls' = RecordCall(calls, method, OrEmpty(params))
              /\ out' = Out("query", Dispatch(responses, method, OrEmpty(params)),
                            method, params)
    /\ UNCHANGED <<responses, sandboxVars, cliVars, toolVars>>

\* "self._calls.clear()"
Cleared_keep(log) == log

Cleared(log) == <<>>

\* reset()
Reset ==
    /\ calls' = Cleared(calls)
    /\ out' = Done("reset")
    /\ UNCHANGED <<responses, sandboxVars, cliVars, toolVars>>

NextMock == AddResponse \/ Query \/ Reset

-----------------------------------------------------------------------------
(* MockRPC: assertions on the call log *)

\* match= of assert_called
AssertMatches == {PNone, PDict(<<>>), PDict("a" :> 1)}

\* the entries a MockRPC was set up with before it is used: none or one,
\* and for the assertions also two
Registered == {<<>>} \cup {<<e>> : e \in Entries}
RegisteredPairs == Registered \cup {<<e, f>> : e \in Entries, f \in Entries}

\* "raise AssertionError(...)" of assert_called / assert_not_called
AssertionFailed(why) ==
    [kind |-> "raise", result |-> "", err |-> "AssertionError", msg |-> why,
     msg_method |-> "", msg_params |-> PNone]

\* "[c for c in self._calls if c['method'] == method]"
Matching_all(log, method) == log

Matching(log, method) == SelectSeq(log, LAMBDA c : c.method = method)

\* the body of assert_called
AssertCalledEnd(log, method, match) ==
    LET matching == Matching(log, method)
        found == \E i \in 1..Len(matching) :
                     /\ matching[i].params.tag = "dict"
                     /\ is_subset(match.val, matching[i].params.val)
    IN  IF Len(matching) = 0 THEN AssertionFailed("never called")
        ELSE IF Truthy(match) /\ ~found THEN AssertionFailed("no call matched")
        ELSE Returned("")

\* the body of assert_not_called
AssertNotCalledEnd(log, method) ==
    IF Len(Matching(log, method)) # 0
      THEN AssertionFailed("found calls")
      ELSE Returned("")

\* assert_called(method, match=)
AssertCalled ==
    /\ \E method \in Methods, match \in AssertMatches :
          out' = Out("assert_called", AssertCalledEnd(calls, method, match),
                     method, match)
    /\ UNCHANGED <<responses, calls, sandboxVars, cliVars, toolVars>>

\* assert_not_called(method)
AssertNotCalled ==
    /\ \E method \in Methods :
          out' = Out("assert_not_called", AssertNotCalledEnd(calls, method),
                     method, PNone)
    /\ UNCHANGED <<responses, calls, sandboxVars, cliVars, toolVars>>

NextAssert == Query \/ Reset \/ AssertCalled \/ AssertNotCalled

-----------------------------------------------------------------------------
(* MockRPC.add_account: the float arithmetic of "str(int(balance_near * 1e24))" *)

\* width of the significand of a Python float (IEEE 754 binary64)
MantissaBits == 53
\* the exponent of the literal 1e24
YoctoExponent == 24

\* Natural numbers beyond the machine word, as sequences of binary digits,
\* least significant first, without leading zeros (<<>> is 0).
RECURSIVE ToBits(_)
ToBits(n) == IF n = 0 THEN <<>> ELSE <<n % 2>> \o ToBits(n \div 2)

Zeros(n) == [i \in 1..n |-> 0]

\* a * k for a small k, from digit i on with the carry so far
RECURSIVE MulFrom(_, _, _, _)
MulFrom(a, i, k, carry) ==
    IF i > Len(a) THEN ToBits(carry)
    ELSE <<(a[i] * k + carry) % 2>>
             \o MulFrom(a, i + 1, k, (a[i] * k + carry) \div 2)

MulSmall(a, k) == IF k = 0 THEN <<>> ELSE MulFrom(a, 1, k, 0)

\* a + 1
RECURSIVE Inc(_)
Inc(a) ==
    IF a = <<>> THEN <<1>>
    ELSE IF a[1] = 0 THEN <<1>> \o Tail(a)
    ELSE <<0>> \o Inc(Tail(a))

RECURSIVE Pow10(_)
Pow10(n) == IF n = 0 THEN <<1>> ELSE MulSmall(Pow10(n - 1), 10)

\* A float as significand * 2^exp, the significand a natural number.
Float(bits, exp) == [bits |-> bits, exp |-> exp]

\* the nearest float to an exact significand * 2^exp: the significand cut to
\* MantissaBits digits, round-half-to-even
Nearest(bits, exp) ==
    LET drop == Len(bits) - MantissaBits
        kept == SubSeq(bits, drop + 1, Len(bits))
        half == bits[drop] = 1
        sticky == \E i \in 1..(drop - 1) : bits[i] = 1
        up == half /\ (sticky \/ kept[1] = 1)
    IN  IF drop <= 0 THEN Float(bits, exp)
        ELSE Float(IF up THEN Inc(kept) ELSE kept, exp + drop)

\* the literal 1e24
OneE24 == Nearest(Pow10(YoctoExponent), 0)

\* balance_near=: a float given as num / 2^shift, num a small natural
Balance(num, shift) == [num |-> num, shift |-> shift]

\* the balances add_account is called with: 50.0, the default 100.0, 1.0,
\* 0.5 and 0.0
Balances == {Balance(50, 0), Balance(100, 0), Balance(1, 0), Balance(1, 1),
             Balance(0, 0)}

\* "balance_near * 1e24"
Times1e24(balance) ==
    Nearest(MulSmall(OneE24.bits, balance.num), OneE24.exp - balance.shift)

\* int(x) of a non-negative float, as binary digits
IntOf(x) ==
    IF x.bits = <<>> THEN <<>>
    ELSE IF x.exp >= 0 THEN Zeros(x.exp) \o x.bits
    ELSE IF -x.exp >= Len(x.bits) THEN <<>>
    ELSE SubSeq(x.bits, 1 - x.exp, Len(x.bits))

\* 2 * d + bit on decimal digits, least significant first: a digit carries
\* into the next exactly when it is 5 or more
DoublePlus(d, bit) ==
    LET carry(i) == IF i = 1 THEN bit ELSE IF d[i - 1] >= 5 THEN 1 ELSE 0
        low == [i \in 1..Len(d) |-> (2 * d[i] + carry(i)) % 10]
    IN  IF d = <<>> THEN (IF bit = 0 THEN <<>> ELSE <<bit>>)
        ELSE IF d[Len(d)] >= 5 THEN Append(low, 1) ELSE low \o <<>>

\* the decimal digits of the binary digits i..Len(bits), given those of the
\* digits above i
RECURSIVE DecimalFrom(_, _, _)
DecimalFrom(bits, i, above) ==
    LET next == DoublePlus(above, bits[i])
    IN  IF i = 0 THEN above
        ELSE IF next = <<>> THEN DecimalFrom(bits, i - 1, <<>>)
        ELSE DecimalFrom(bits, i - 1, next)

Reverse(seq) == [i \in 1..Len(seq) |-> seq[Len(seq) + 1 - i]]

\* str(n) of a natural number: its decimal digits, most significant first
StrOf(bits) ==
    IF bits = <<>> THEN <<0>> ELSE Reverse(DecimalFrom(bits, Len(bits), <<>>))

\* "amount = str(int(balance_near * 1e24))"
Amount(balance) == StrOf(IntOf(Times1e24(balance)))

\* account_id= of add_account
Accounts == {"alice.near", "bob.near"}

\* the entry add_account registers, with the defaults of its other arguments
AccountEntry(account_id, balance_near) ==
    [method |-> "query",
     result |-> [amount |-> Amount(balance_near), locked |-> "0",
                 code_hash |-> "11111111111111111111111111111111",
                 storage_usage |-> 182, block_height |-> 100000000,
                 block_hash |-> "mock_block_hash"],
     match |-> PDict(("request_type" :> "view_account")
                     @@ ("account_id" :> account_id)),
     error |-> PNone]

\* the queries made of a MockRPC with accounts: view_account with a finality
\* for each account, and one call_function
AccountQueries ==
    {<<"query", PDict(("request_type" :> "view_account")
                      @@ ("account_id" :> a) @@ ("finality" :> "final"))>> :
         a \in Accounts}
    \cup {<<"query", PDict(("request_type" :> "call_function")
                           @@ ("account_id" :> "alice.near"))>>}

\* add_account(account_id, balance_near=)
AddAccount ==
    /\ Len(responses) < MaxEntries
    /\ \E account_id \in Accounts, balance_near \in Balances :
          responses' = Append(responses, AccountEntry(account_id, balance_near))
    /\ out' = Done("add_account")
    /\ UNCHANGED <<calls, sandboxVars, cliVars, toolVars>>

\* query("query", {request_type:, account_id:, finality:})
QueryAccount ==
    /\ Len(calls) < MaxCalls
    /\ \E q \in AccountQueries :
          LET method == q[1]
              params == q[2]
          IN  /\ calls' = RecordCall(calls, method, OrEmpty(params))
              /\ out' = Out("query", Dispatch(responses, method, OrEmpty(params)),
                            method, params)
    /\ UNCHANGED <<responses, sandboxVars, cliVars, toolVars>>

NextAccount == AddAccount \/ QueryAccount

-----------------------------------------------------------------------------
(* MockRPC: patch_urlopen and the scope *)

\* patch objects one MockRPC makes in a run of the model
MaxPatches == 3

\* What is sent through urlopen: a request without data, or one whose body
\* is a JSON object (method and params as query takes them, params possibly
\* missing, id {} when the object has none), a JSON array, or not JSON.
Payload(body, method, params, id) ==
    [data |-> body # "none", body |-> body, method |-> method,
     params |-> params, id |-> id]

Payloads ==
    {Payload("object", "query", params, {"r7"}) :
        params \in {PDict("a" :> 2), PDict(("a" :> 1) @@ ("b" :> 2))}}
    \cup {Payload("object", "tx", PDict(<<>>), {}),
          Payload("array", "", PDict(<<>>), {}),
          Payload("text", "", PDict(<<>>), {}),
          Payload("none", "", PDict(<<>>), {})}

\* str(e) of the NearTestingError query raised: the fixed text and what the
\* message embeds
NoText == [text |-> "", msg |-> "", method |-> "", params |-> PNone]

ErrorText(end) ==
    [text |-> IF end.err = "mock_error" THEN "Mock RPC error: "
                                        ELSE "No mock response registered for",
     msg |-> end.msg, method |-> end.msg_method, params |-> end.msg_params]

\* What a urlopen(req) call gave: the response body as decoded JSON (body
\* names its member, "result" or "error"), or the exception raised.
Reply(via, req, raised, body, id, result, message) ==
    [via |-> via, req |-> req, raised |-> raised, body |-> body, id |-> id,
     result |-> result, message |-> message]

NoReply == Reply("none", Payload("none", "", PDict(<<>>), {}), "", "", "", "", NoText)

\* the call went to the real urllib.request.urlopen
RealReply(req) == Reply("real", req, "", "", "", "", NoText)

\* payload.get("id", "test")
IdOf(req) == IF req.id = {} THEN "test" ELSE CHOOSE i \in req.id : TRUE

\* the response body fake_urlopen builds from how mock_rpc.query ended
FakeReply(req, end) ==
    IF end.kind = "return"
      THEN Reply("fake", req, "", "result", IdOf(req), end.result, NoText)
      ELSE Reply("fake", req, "", "error", IdOf(req), "", ErrorText(end))

\* fake_urlopen's reply to a request without data
EmptyReply(req) == Reply("fake", req, "", "result", "test", "{}", NoText)

\* "payload = json.loads(data.decode())" and "payload.get": what a body
\* that is not a JSON object raises, "" for an object
PayloadRaises(req) ==
    CASE req.body = "text" -> "JSONDecodeError"
      [] req.body = "array" -> "AttributeError"
      [] OTHER -> ""

\* fake_urlopen left by an exception
FakeRaised(req, exc) == Reply("fake", req, exc, "", "", "", NoText)

\* patch.stop() of unittest.mock on each patcher of ps from index i on, in
\* list order: a started patcher puts back the value it saved when it was
\* started; cur is urllib.request.urlopen so far
RECURSIVE StopAll(_, _, _, _)
StopAll(ps, i, made, cur) ==
    IF i > Len(ps) THEN cur
    ELSE StopAll(ps, i + 1, made,
                 IF made[ps[i]].started THEN made[ps[i]].temp_original
                                        ELSE cur)

\* __enter__
Enter ==
    /\ scope # "open"
    /\ scope' = "open"
    /\ before_first' = urlopen
    /\ UNCHANGED <<urlopen, patchers, patches, reply>>
    /\ UNCHANGED <<sandboxVars, cliVars, mockVars, txVars, depVars, helperVars, scopeVars>>

\* patch_urlopen(): p = patch(...); self._patches.append(p); p.start()
PatchUrlopen ==
    /\ scope = "open"
    /\ Len(patchers) < MaxPatches
    /\ patchers' = Append(patchers, [temp_original |-> urlopen, started |-> TRUE])
    /\ patches' = Append(patches, Len(patchers'))
    /\ urlopen' = Len(patchers')
    /\ before_first' = IF patches = <<>> THEN urlopen ELSE before_first
    /\ UNCHANGED <<scope, reply>>
    /\ UNCHANGED <<sandboxVars, cliVars, mockVars, txVars, depVars, helperVars, scopeVars>>

\* __exit__(exc_type, exc_val, exc_tb), at the end of the block or when an
\* exception leaves it
Exit ==
    /\ scope = "open"
    /\ \E how \in {"exited", "raised"} : scope' = how
    /\ urlopen' = StopAll(patches, 1, patchers, urlopen)
    /\ patchers' = [i \in 1..Len(patchers) |->
                      IF \E j \in 1..Len(patches) : patches[j] = i
                        THEN [patchers[i] EXCEPT !.started = FALSE]
                        ELSE patchers[i]]
    /\ patches' = <<>>
    /\ UNCHANGED <<before_first, reply>>
    /\ UNCHANGED <<sandboxVars, cliVars, mockVars, txVars, depVars, helperVars, scopeVars>>

\* some code of the test process calls urllib.request.urlopen(req)
CallUrlopen ==
    /\ Len(calls) < MaxCalls
    /\ \E req \in Payloads :
          IF urlopen = 0
            THEN /\ reply' = RealReply(req)
                 /\ UNCHANGED <<calls, out>>
            ELSE IF ~req.data
              THEN /\ reply' = EmptyReply(req)
                   /\ UNCHANGED <<calls, out>>
            ELSE IF PayloadRaises(req) # ""
              THEN /\ reply' = FakeRaised(req, PayloadRaises(req))
                   /\ UNCHANGED <<calls, out>>
              ELSE /\ calls' = RecordCall(calls, req.method, OrEmpty(req.params))
                   /\ out' = Out("query",
                                 Dispatch(responses, req.method, OrEmpty(req.params)),
                                 req.method, req.params)
                   /\ reply' = FakeReply(req, out')
    /\ UNCHANGED <<urlopen, patchers, patches, scope, before_first>>
    /\ UNCHANGED <<responses, sandboxVars, cliVars, txVars, depVars, helperVars, scopeVars>>

NextPatch == Enter \/ PatchUrlopen \/ Exit \/ CallUrlopen

-----------------------------------------------------------------------------
(* near-cli output and _parse_cli_output *)

\* lines of stdout one command writes in a run of the model
MaxLines == 2

\* A log line: the prefix startswith() sees and the text after it.
LogLine(prefix, rest) == [prefix |-> prefix, rest |-> rest]

\* members of a decoded JSON object, by shape: absent from the object, null,
\* a list, a string, or an object with the members the parser reads
JAbsent == [tag |-> "absent", keys |-> {}, hash |-> "", logs |-> <<>>, outcome |-> "absent"]
JNull == [tag |-> "null", keys |-> {}, hash |-> "", logs |-> <<>>, outcome |-> "absent"]
JList(items) == [tag |-> "list", keys |-> {}, hash |-> "", logs |-> items, outcome |-> "absent"]
JStr(text) == [tag |-> "str", keys |-> {}, hash |-> text, logs |-> <<>>, outcome |-> "absent"]
\* {"Failure": ...}, {"SuccessValue": ...}, {"hash": ...}
JKeys(keys, hash) == [tag |-> "dict", keys |-> keys, hash |-> hash, logs |-> <<>>, outcome |-> "absent"]
\* {"outcome": {"logs": [...]}}: outcome says how far the shape goes
\* ("absent": no outcome member, "null", "dict": an object without logs,
\* "logs": an object with a logs list, "nulllogs": with logs null)
JOutcome(outcome, items) == [tag |-> "dict", keys |-> {}, hash |-> "", logs |-> items, outcome |-> outcome]

\* a decoded object: the three members _parse_cli_output looks at
JObject(transaction_outcome, transaction, status) ==
    [transaction_outcome |-> transaction_outcome, transaction |-> transaction,
     status |-> status]

\* "{}", the initial raw
JEmpty == JObject(JAbsent, JAbsent, JAbsent)

\* the failure keywords and the success keyword of the text heuristic
failure_indicators == {"error", "failure", "failed", "panic"}
SuccessKeyword == "success"

\* One stripped line of output, as the parser's string tests see it:
\*   starts  which of "Log [", "Receipt:", "{" it starts with ("" for none)
\*   mark    it contains "Transaction Id" or "transaction_hash"
\*   token   its first 44-character alphanumeric token ("" for none)
\*   kw      the keywords its lower-cased text contains
\*   valid   json.loads accepts it;  json  the object it decodes to
\*   log     the line as a log entry
Line(starts, mark, token, kw, valid, json, rest) ==
    [starts |-> starts, mark |-> mark, token |-> token, kw |-> kw,
     valid |-> valid, json |-> json, log |-> LogLine(starts, rest)]

Plain(rest, kw) == Line("", FALSE, "", kw, FALSE, JEmpty, rest)

\* the keywords the text of an encoded object contains because of its keys
JsonKw(obj) ==
    (IF "Failure" \in obj.status.keys \/ obj.status = JStr("Failure")
       THEN {"failure"} ELSE {})
    \cup (IF "SuccessValue" \in obj.status.keys THEN {"success"} ELSE {})

Json(obj) == Line("{", FALSE, "", JsonKw(obj), TRUE, obj, "json")

\* the log lists of the transaction outcomes
EventLogs ==
    {<<LogLine("EVENT_JSON:", "{\"event\":\"mint\"}"), LogLine("", "minted 1")>>,
     <<LogLine("EVENT_JSON:", "{\"event\":"),
       LogLine("EVENT_JSON:", "{\"event\":\"burn\"}")>>}

\* the plain and the undecodable lines
TextLines ==
    {Plain("Done deploying", {}),
     Line("", TRUE, "H1", {}, FALSE, JEmpty, "Transaction Id H1"),
     Line("", TRUE, "H3", {}, FALSE, JEmpty, "Transaction Id H3"),
     Line("", TRUE, "H4", {}, FALSE, JEmpty, "H4 is the Transaction Id"),
     Line("", FALSE, "H5", {}, FALSE, JEmpty, "H5"),
     Line("Log [", FALSE, "", {}, FALSE, JEmpty, "c.near]: transfer ok"),
     Line("Log [", FALSE, "", {"error"}, FALSE, JEmpty, "c.near]: error ignored"),
     Plain("Call was a Success", {"success"}),
     Plain("ERROR: Failed to send", {"error", "failed"}),
     Line("{", FALSE, "", {"panic"}, FALSE, JEmpty, "panicked: {"),
     Line("Receipt:", FALSE, "", {}, FALSE, JEmpty, " R1")}

\* the lines that decode to an object of the expected shape
JsonLines ==
    {Json(JObject(JAbsent, JAbsent, JKeys({"SuccessValue"}, ""))),
     Json(JObject(JAbsent, JAbsent, JKeys({"Failure"}, "")))}
    \cup {Json(JObject(JOutcome("logs", logs), JKeys({"hash"}, "H2"), JAbsent)) :
              logs \in EventLogs}

\* the lines that decode to an object with a member of another shape
OddLines ==
    {Json(JObject(JAbsent, JAbsent, JNull)),
     Json(JObject(JAbsent, JAbsent, JStr("Failure"))),
     Json(JObject(JNull, JAbsent, JAbsent)),
     Json(JObject(JList(<<>>), JAbsent, JAbsent)),
     Json(JObject(JOutcome("null", <<>>), JAbsent, JAbsent)),
     Json(JObject(JOutcome("nulllogs", <<>>), JAbsent, JAbsent)),
     Json(JObject(JOutcome("dict", <<>>), JNull, JAbsent))}

Lines == TextLines \cup JsonLines \cup OddLines

\* what a command wrote to stderr: nothing, or one line
StderrLines == {<<>>, <<Plain("ERROR: Failed to send", {"error", "failed"})>>,
                <<Plain("Call was a Success", {"success"})>>}

\* "combined.splitlines()", blank lines left out
Combined(stdout, stderr) == stdout \o stderr

\* the parser's locals; raised names the exception that left the function
ParserStart ==
    [tx_hash |-> "", status |-> "success", logs |-> <<>>, raw |-> JEmpty,
     raised |-> ""]

\* an exception leaves the function: no value is returned
Raising(acc, exc) ==
    [tx_hash |-> "", status |-> "", logs |-> <<>>, raw |-> JEmpty,
     raised |-> exc]

\* lines 994-999: the transaction hash of a marked line
HashStep(acc, line) ==
    IF line.mark /\ line.token # "" THEN [acc EXCEPT !.tx_hash = line.token]
                                    ELSE acc

\* lines 1001-1002: log lines
LogStep(acc, line) ==
    IF line.starts \in {"Log [", "Receipt:"}
      THEN [acc EXCEPT !.logs = Append(@, line.log)]
      ELSE acc

\* lines 1008-1011: the transaction_outcome member
OutcomeStep(acc, obj) ==
    LET to == obj.transaction_outcome
        tr == obj.transaction
    IN  IF to.tag = "absent" THEN acc
        \* parsed["transaction_outcome"].get: None, list, str have no .get
        ELSE IF to.tag # "dict" THEN Raising(acc, "AttributeError")
        \* parsed.get("transaction", {}).get, reached when tx_hash is falsy
        ELSE IF acc.tx_hash = "" /\ tr.tag \notin {"absent", "dict"}
          THEN Raising(acc, "AttributeError")
        \* outcome.get: outcome is null
        ELSE IF to.outcome = "null" THEN Raising(acc, "AttributeError")
        \* logs.extend(None)
        ELSE IF to.outcome = "nulllogs" THEN Raising(acc, "TypeError")
        ELSE [acc EXCEPT
                 !.tx_hash = IF @ # "" \/ tr.tag = "absent" THEN @ ELSE tr.hash,
                 !.logs = @ \o to.logs]

\* lines 1012-1015: the status member
StatusStep(acc, obj) ==
    IF obj.status.tag = "dict" /\ "Failure" \in obj.status.keys
      THEN [acc EXCEPT !.status = "failure"]
      ELSE acc

\* lines 1004-1017: a line that starts with "{"
JsonStep(acc, line) ==
    IF line.starts = "{" /\ line.valid
      THEN LET got == OutcomeStep([acc EXCEPT !.raw = line.json], line.json)
           IN  IF got.raised # "" THEN got ELSE StatusStep(got, line.json)
      ELSE acc

\* the loop over the lines, from line i on
RECURSIVE ParseLines(_, _, _)
ParseLines(lines, i, acc) ==
    IF i > Len(lines) \/ acc.raised # "" THEN acc
    ELSE ParseLines(lines, i + 1,
                    JsonStep(LogStep(HashStep(acc, lines[i]), lines[i]), lines[i]))

\* the keywords lower_combined contains
Keywords(lines) == UNION {lines[i].kw : i \in 1..Len(lines)}

\* lines 1019-1023: the text heuristic
KeywordStep_nosuccess(acc, lines) ==
    IF acc.raised = "" /\ Keywords(lines) \cap failure_indicators # {}
      THEN [acc EXCEPT !.status = "failure"]
      ELSE acc

KeywordStep(acc, lines) ==
    IF /\ acc.raised = ""
       /\ Keywords(lines) \cap failure_indicators # {}
       /\ SuccessKeyword \notin Keywords(lines)
      THEN [acc EXCEPT !.status = "failure"]
      ELSE acc

\* _parse_cli_output(stdout, stderr): the TransactionResult, or the exception
parse_cli_output(stdout, stderr) ==
    LET lines == Combined(stdout, stderr)
    IN  KeywordStep(ParseLines(lines, 1, ParserStart), lines)

-----------------------------------------------------------------------------
(* TransactionResult, call_contract *)

\* A near-cli command: what it has written to stdout while it runs, and
\* the subprocess.CompletedProcess once it has exited.
Started(stdout) ==
    [running |-> TRUE, returncode |-> 0, stdout |-> stdout, stderr |-> <<>>]

Completed(returncode, stdout, stderr) ==
    [running |-> FALSE, returncode |-> returncode, stdout |-> stdout,
     stderr |-> stderr]

NoResult == Started(<<>>)

\* How an operation that gives a TransactionResult ended: the result's
\* fields, or the exception raised instead.
Tx(op, acc) ==
    [op |-> op, raised |-> acc.raised, transaction_hash |-> acc.tx_hash,
     status |-> acc.status, logs |-> acc.logs, raw |-> acc.raw]

NoTx == Tx("none", Raising(ParserStart, ""))

\* "if result.returncode != 0: tx_result.status = 'failure'"
ExitCodeOverride(acc, returncode) ==
    IF acc.raised = "" /\ returncode # 0
      THEN [acc EXCEPT !.status = "failure"]
      ELSE acc

\* A decoded event value: an object with its "event", "standard" and "data"
\* members ({} for a member the object does not have), or a number.
\* data is absent, an object, or a list of entries that are objects
\* (PDict) or numbers (PInt).
PInt == [tag |-> "int", val |-> <<>>]
NoData == [tag |-> "absent", items |-> <<>>]
DataList(items) == [tag |-> "list", items |-> items]
DataDict(d) == [tag |-> "dict", items |-> <<PDict(d)>>]
EvDict(event, standard, data) ==
    [tag |-> "dict", event |-> event, standard |-> standard, data |-> data]
EvInt == [tag |-> "int", event |-> {}, standard |-> {}, data |-> NoData]
Undecoded == [valid |-> FALSE, value |-> EvInt]
Decoded(value) == [valid |-> TRUE, value |-> value]

\* json.loads of the text after the event marker
JsonLoads(text) ==
    CASE text = "{\"event\":\"mint\"}" -> Decoded(EvDict({"mint"}, {}, NoData))
      [] text = "{\"event\":\"burn\"}" -> Decoded(EvDict({"burn"}, {}, NoData))
      [] text = "{\"standard\":\"nep171\",\"event\":\"mint\",\"data\":[{\"a\":2},{\"a\":1,\"b\":2}]}"
           -> Decoded(EvDict({"mint"}, {"nep171"},
                             DataList(<<PDict("a" :> 2),
                                        PDict(("a" :> 1) @@ ("b" :> 2))>>)))
      [] text = "{\"event\":\"mint\",\"data\":{\"a\":1}}"
           -> Decoded(EvDict({"mint"}, {}, DataDict("a" :> 1)))
      [] text = "{\"event\":\"burn\",\"data\":[{\"a\":1},5]}"
           -> Decoded(EvDict({"burn"}, {}, DataList(<<PDict("a" :> 1), PInt>>)))
      [] text = "{\"event\":\"mint\",\"data\":[5]}"
           -> Decoded(EvDict({"mint"}, {}, DataList(<<PInt>>)))
      [] text = "42" -> Decoded(EvInt)
      [] OTHER -> Undecoded

\* TransactionResult.events
events_all(logs) ==
    [i \in 1..Len(logs) |-> JsonLoads(logs[i].rest).value]

events(logs) ==
    LET decoded == SelectSeq(logs, LAMBDA l : /\ l.prefix = "EVENT_JSON:"
                                              /\ JsonLoads(l.rest).valid)
    IN  [i \in 1..Len(decoded) |-> JsonLoads(decoded[i].rest).value]

NoEvents == [read |-> FALSE, value |-> <<>>]

\* the near-cli child process writes a line to its stdout
NearCliWrites ==
    /\ cli_result.running
    /\ Len(cli_result.stdout) < MaxLines
    /\ \E line \in Lines :
          cli_result' = Started(Append(cli_result.stdout, line))
    /\ UNCHANGED <<tx, evs>>
    /\ UNCHANGED <<sandboxVars, cliVars, mockVars, patchVars, depVars, helperVars, scopeVars>>

\* _parse_cli_output(result.stdout, result.stderr) once the command has
\* exited, as NearTestAccount.create and the tests use it
ParseCliOutput ==
    /\ cli_result.running
    /\ \E stderr \in StderrLines :
          /\ cli_result' = Completed(0, cli_result.stdout, stderr)
          /\ tx' = Tx("parse", parse_cli_output(cli_result.stdout, stderr))
    /\ evs' = NoEvents
    /\ UNCHANGED <<sandboxVars, cliVars, mockVars, patchVars, depVars, helperVars, scopeVars>>

\* call_contract(ctx, contract_id=, method=, args=, signer_id=), from the
\* return of run_near_cli on
CallContract ==
    /\ cli_result.running
    /\ \E returncode \in ExitCodes, stderr \in StderrLines :
          /\ cli_result' = Completed(returncode, cli_result.stdout, stderr)
          /\ tx' = Tx("call_contract",
                      ExitCodeOverride(
                          parse_cli_output(cli_result.stdout, stderr),
                          returncode))
    /\ evs' = NoEvents
    /\ UNCHANGED <<sandboxVars, cliVars, mockVars, patchVars, depVars, helperVars, scopeVars>>

\* result.events, read on the result last returned
Events ==
    /\ tx.op # "none"
    /\ tx.raised = ""
    /\ evs' = [read |-> TRUE, value |-> events(tx.logs)]
    /\ UNCHANGED <<cli_result, tx>>
    /\ UNCHANGED <<sandboxVars, cliVars, mockVars, patchVars, depVars, helperVars, scopeVars>>

NextTx == NearCliWrites \/ ParseCliOutput \/ CallContract \/ Events

-----------------------------------------------------------------------------
(* ContractDeployer.deploy *)

\* init_method=: not given, the empty string, a method name
InitMethods == {"None", "", "new"}

\* "if init_method:"
InitGiven(init_method) == init_method \notin {"None", ""}

\* what a command of deploy() wrote to stdout: at most one line
CmdStdouts == {<<>>} \cup {<<line>> : line \in Lines}

\* How deploy() ended: the TransactionResult returned, or the exception
\* raised (ContractDeployError with what it reports, an exception of the
\* parser, subprocess.TimeoutExpired of run_near_cli).
DeployReturned(acc) ==
    [kind |-> "return", exc |-> "", what |-> "", result |-> Tx("deploy", acc)]
DeployRaised(exc, what) ==
    [kind |-> "raise", exc |-> exc, what |-> what, result |-> NoTx]
NoDeploy == [kind |-> "none", exc |-> "", what |-> "", result |-> NoTx]

\* a parser result as deploy() passes it on
Passed(acc) ==
    IF acc.raised # "" THEN DeployRaised(acc.raised, "parse")
                       ELSE DeployReturned(acc)

\* "if result.returncode != 0"
CommandFailed_never(result) == FALSE

CommandFailed(result) == result.returncode # 0

\* "return _parse_cli_output(init_result.stdout, init_result.stderr)"
InitReturn_deploy(deploy_result, init_result) ==
    parse_cli_output(deploy_result.stdout, deploy_result.stderr)

InitReturn(deploy_result, init_result) ==
    parse_cli_output(init_result.stdout, init_result.stderr)

\* deploy(wasm_path, account_id, init_method=): the artifact check and, when
\* it passes, the deploy command issued
DeployStart ==
    /\ dep_pc = "idle"
    /\ \E exists \in BOOLEAN, init_method \in InitMethods :
          /\ dep_in' = [exists |-> exists, init_method |-> init_method]
          /\ IF exists
               THEN /\ cmds' = <<"deploy">>
                    /\ dep_pc' = "deploying"
                    /\ dep' = NoDeploy
               ELSE /\ cmds' = <<>>
                    /\ dep_pc' = "idle"
                    /\ dep' = DeployRaised("ContractDeployError", "not_found")
    /\ deploy_out' = NoResult
    /\ init_out' = NoResult
    /\ UNCHANGED <<sandboxVars, cliVars, mockVars, patchVars, txVars, helperVars, scopeVars>>

\* run_near_cli of the deploy command does not return within its timeout
DeployTimeout ==
    /\ dep_pc = "deploying"
    /\ dep_pc' = "idle"
    /\ dep' = DeployRaised("TimeoutExpired", "deploy")
    /\ UNCHANGED <<dep_in, cmds, deploy_out, init_out>>
    /\ UNCHANGED <<sandboxVars, cliVars, mockVars, patchVars, txVars, helperVars, scopeVars>>

\* the deploy command has exited: lines 652-678 up to the init call issued
DeployDone ==
    /\ dep_pc = "deploying"
    /\ \E returncode \in ExitCodes, stdout \in CmdStdouts, stderr \in StderrLines :
          LET result == Completed(returncode, stdout, stderr)
              deploy_result == parse_cli_output(stdout, stderr)
          IN  /\ deploy_out' = result
              /\ IF CommandFailed(result)
                   THEN /\ dep' = DeployRaised("ContractDeployError", "deploy_failed")
                        /\ dep_pc' = "idle"
                        /\ cmds' = cmds
                   ELSE IF deploy_result.raised # ""
                   THEN /\ dep' = Passed(deploy_result)
                        /\ dep_pc' = "idle"
                        /\ cmds' = cmds
                   ELSE IF InitGiven(dep_in.init_method)
                   THEN /\ dep' = NoDeploy
                        /\ dep_pc' = "initing"
                        /\ cmds' = Append(cmds, "call")
                   ELSE /\ dep' = Passed(deploy_result)
                        /\ dep_pc' = "idle"
                        /\ cmds' = cmds
    /\ UNCHANGED <<dep_in, init_out>>
    /\ UNCHANGED <<sandboxVars, cliVars, mockVars, patchVars, txVars, helperVars, scopeVars>>

\* run_near_cli of the init call does not return within its timeout
InitTimeout ==
    /\ dep_pc = "initing"
    /\ dep_pc' = "idle"
    /\ dep' = DeployRaised("TimeoutExpired", "init")
    /\ UNCHANGED <<dep_in, cmds, deploy_out, init_out>>
    /\ UNCHANGED <<sandboxVars, cliVars, mockVars, patchVars, txVars, helperVars, scopeVars>>

\* the init call has exited: lines 671-676
InitDone ==
    /\ dep_pc = "initing"
    /\ \E returncode \in ExitCodes, stdout \in CmdStdouts, stderr \in StderrLines :
          LET init_result == Completed(returncode, stdout, stderr)
          IN  /\ init_out' = init_result
              /\ dep' = IF CommandFailed(init_result)
                          THEN DeployRaised("ContractDeployError", "init_failed")
                          ELSE Passed(InitReturn(deploy_out, init_result))
    /\ dep_pc' = "idle"
    /\ UNCHANGED <<dep_in, cmds, deploy_out>>
    /\ UNCHANGED <<sandboxVars, cliVars, mockVars, patchVars, txVars, helperVars, scopeVars>>

NextDeploy == DeployStart \/ DeployTimeout \/ DeployDone \/ InitTimeout \/ InitDone

-----------------------------------------------------------------------------
(* assert_transaction_success, assert_transaction_failure,                 *)
(* assert_event_emitted                                                    *)

\* log lines of a TransactionResult handed to an assertion helper
MaxLogs == 2

\* The characters of the text after a log line's prefix: a run of characters
\* that repr() leaves alone is one element, a quote or a backslash is an
\* element of its own.
Quoted(word) == <<"\"", word, "\"">>

Chars(rest) ==
    CASE rest = "{\"event\":\"mint\"}" ->
             <<"{">> \o Quoted("event") \o <<":">> \o Quoted("mint") \o <<"}">>
      [] rest = "{\"event\":" -> <<"{">> \o Quoted("event") \o <<":">>
      [] rest = "{\"standard\":\"nep171\",\"event\":\"mint\",\"data\":[{\"a\":2},{\"a\":1,\"b\":2}]}" ->
             <<"{">> \o Quoted("standard") \o <<":">> \o Quoted("nep171")
             \o <<",">> \o Quoted("event") \o <<":">> \o Quoted("mint")
             \o <<",">> \o Quoted("data") \o <<":[{">> \o Quoted("a")
             \o <<":2},{">> \o Quoted("a") \o <<":1,">> \o Quoted("b")
             \o <<":2}]}">>
      [] rest = "{\"event\":\"mint\",\"data\":{\"a\":1}}" ->
             <<"{">> \o Quoted("event") \o <<":">> \o Quoted("mint")
             \o <<",">> \o Quoted("data") \o <<":{">> \o Quoted("a")
             \o <<":1}}">>
      [] rest = "{\"event\":\"burn\",\"data\":[{\"a\":1},5]}" ->
             <<"{">> \o Quoted("event") \o <<":">> \o Quoted("burn")
             \o <<",">> \o Quoted("data") \o <<":[{">> \o Quoted("a")
             \o <<":1},5]}">>
      [] rest = "{\"event\":\"mint\",\"data\":[5]}" ->
             <<"{">> \o Quoted("event") \o <<":">> \o Quoted("mint")
             \o <<",">> \o Quoted("data") \o <<":[5]}">>
      [] rest = "c.near]: path C:\\tmp" -> <<"c.near]: path C:", "\\", "tmp">>
      [] rest = "it's \"x\"" -> <<"it", "'", "s ">> \o Quoted("x")
      [] OTHER -> <<rest>>

\* the characters of a log line
Text(line) ==
    (IF line.prefix = "" THEN <<>> ELSE <<line.prefix>>) \o Chars(line.rest)

\* the log lines a result handed to a helper is made of
HelperLogs ==
    {LogLine("EVENT_JSON:", rest) :
        rest \in {"{\"event\":\"mint\"}", "{\"event\":",
                  "{\"standard\":\"nep171\",\"event\":\"mint\",\"data\":[{\"a\":2},{\"a\":1,\"b\":2}]}",
                  "{\"event\":\"mint\",\"data\":{\"a\":1}}",
                  "{\"event\":\"burn\",\"data\":[{\"a\":1},5]}",
                  "{\"event\":\"mint\",\"data\":[5]}",
                  "42"}}
    \cup {LogLine("", "minted 1"), LogLine("Log [", "c.near]: path C:\\tmp"),
          LogLine("", "it's \"x\"")}

\* TransactionResult(transaction_hash=, status=, logs=), raw left at {}
Given(transaction_hash, status, logs) ==
    [transaction_hash |-> transaction_hash, status |-> status, logs |-> logs,
     raw |-> JEmpty]

Statuses == {"success", "failure", "pending"}

GivenResults ==
    {Given(h, st, logs) :
        h \in {"", "H1"}, st \in Statuses,
        logs \in UNION {[1..n -> HelperLogs] : n \in 0..MaxLogs}}

\* the results assert_event_emitted is applied to
EventResults == {r \in GivenResults : r.transaction_hash = "H1" /\ r.status = "success"}

NoGiven == Given("", "success", <<>>)

\* TransactionResult.succeeded
succeeded_notfailure(result) == result.status # "failure"

succeeded(result) == result.status = "success"

\* repr() of a str: the quote it picks, and what it escapes
QuoteOf(text) ==
    IF (\E i \in 1..Len(text) : text[i] = "'")
       /\ ~(\E i \in 1..Len(text) : text[i] = "\"")
      THEN "\"" ELSE "'"

Escaped_plain(c, quote) == <<c>>

Escaped(c, quote) ==
    IF c = "\\" THEN <<"\\", "\\">>
    ELSE IF c = quote THEN <<"\\", c>>
    ELSE <<c>>

RECURSIVE EscapedFrom(_, _, _)
EscapedFrom(text, i, quote) ==
    IF i > Len(text) THEN <<>>
    ELSE Escaped(text[i], quote) \o EscapedFrom(text, i + 1, quote)

Repr(text) ==
    <<QuoteOf(text)>> \o EscapedFrom(text, 1, QuoteOf(text)) \o <<QuoteOf(text)>>

\* f"{result.logs}": repr() of the list
RECURSIVE ReprItems(_, _)
ReprItems(logs, i) ==
    IF i > Len(logs) THEN <<>>
    ELSE (IF i > 1 THEN <<", ">> ELSE <<>>) \o Repr(Text(logs[i]))
         \o ReprItems(logs, i + 1)

ReprList(logs) == <<"[">> \o ReprItems(logs, 1) \o <<"]">>

\* f"{result.transaction_hash}"
StrOfHash(transaction_hash) ==
    IF transaction_hash = "" THEN <<>> ELSE <<transaction_hash>>

\* json.dumps(result.raw, indent=2)
Dumps(raw) == IF raw = JEmpty THEN <<"{}">> ELSE <<"{", "members", "}">>

\* the arguments of assert_event_emitted; standard is {} for None
Args(event, standard, data) ==
    [event |-> event, standard |-> standard, data |-> data]
NoArgs == Args("", {}, PNone)

\* How a helper ended: raised names the exception ("" when it returned),
\* msg is the exception's message, value what was returned.
Checked(raised, msg, value, args) ==
    [ran |-> TRUE, raised |-> raised, msg |-> msg, value |-> value,
     args |-> args]
NotChecked ==
    [ran |-> FALSE, raised |-> "", msg |-> <<>>, value |-> EvInt,
     args |-> NoArgs]

\* the body of assert_transaction_success
assert_transaction_success(result) ==
    IF ~succeeded(result)
      THEN Checked("AssertionError",
                   <<"Expected transaction ">>
                   \o StrOfHash(result.transaction_hash)
                   \o <<" to succeed, but status was '", result.status,
                        "'.\nLogs: ">>
                   \o ReprList(result.logs)
                   \o <<"\nRaw: ">> \o Dumps(result.raw),
                   EvInt, NoArgs)
      ELSE Checked("", <<>>, EvInt, NoArgs)

\* the body of assert_transaction_failure
assert_transaction_failure(result) ==
    IF succeeded(result)
      THEN Checked("AssertionError",
                   <<"Expected transaction ">>
                   \o StrOfHash(result.transaction_hash)
                   \o <<" to fail, but it succeeded.\nLogs: ">>
                   \o ReprList(result.logs),
                   EvInt, NoArgs)
      ELSE Checked("", <<>>, EvInt, NoArgs)

\* "any(_is_subset(data, entry) for entry in evt_data)": "true", "false",
\* or the TypeError of "key not in superset" on an entry that is a number
RECURSIVE AnyEntry(_, _, _)
AnyEntry(data, items, i) ==
    IF i > Len(items) THEN "false"
    ELSE IF items[i].tag # "dict"
      THEN (IF DOMAIN data = {} THEN "true" ELSE "TypeError")
    ELSE IF is_subset(data, items[i].val) THEN "true"
    ELSE AnyEntry(data, items, i + 1)

\* lines 941-946: evt.get("data", [{}]) against data
DataMatch(data, evt) ==
    LET evt_data == IF evt.data.tag = "absent" THEN DataList(<<PDict(<<>>)>>)
                                                ELSE evt.data
    IN  IF evt_data.tag = "list" THEN AnyEntry(data, evt_data.items, 1)
        ELSE IF is_subset(data, evt_data.items[1].val) THEN "true"
        ELSE "false"

\* the message of the AssertionError of assert_event_emitted, the repr of
\* the events list kept as one element
NotFound(result, event) ==
    <<"Event '", event, "' not found in transaction ">>
    \o StrOfHash(result.transaction_hash)
    \o <<".\nEmitted events: ", "result.events", "\nRaw logs: ">>
    \o ReprList(result.logs)

\* the loop of assert_event_emitted from the i-th event on
RECURSIVE EventScan(_, _, _, _)
EventScan(result, evts, i, args) ==
    IF i > Len(evts)
      THEN Checked("AssertionError", NotFound(result, args.event), EvInt, args)
    \* evt.get on a value that is not an object
    ELSE IF evts[i].tag # "dict" THEN Checked("AttributeError", <<>>, EvInt, args)
    ELSE IF evts[i].event # {args.event} THEN EventScan(result, evts, i + 1, args)
    ELSE IF args.standard # {} /\ evts[i].standard # args.standard
      THEN EventScan(result, evts, i + 1, args)
    ELSE IF args.data.tag = "none" THEN Checked("", <<>>, evts[i], args)
    ELSE LET found == DataMatch(args.data.val, evts[i])
         IN  IF found = "TypeError" THEN Checked("TypeError", <<>>, EvInt, args)
             ELSE IF found = "false" THEN EventScan(result, evts, i + 1, args)
             ELSE Checked("", <<>>, evts[i], args)

\* assert_event_emitted(result, event, standard=, data=)
assert_event_emitted(result, event, standard, data) ==
    EventScan(result, events(result.logs), 1, Args(event, standard, data))

NoneAsserted ==
    [success |-> NotChecked, failure |-> NotChecked, event |-> NotChecked]

\* assert_transaction_success(result)
AssertTransactionSuccess ==
    /\ asserted' = [asserted EXCEPT !.success = assert_transaction_success(given)]
    /\ UNCHANGED given
    /\ UNCHANGED <<sandboxVars, cliVars, mockVars, patchVars, txVars, depVars, scopeVars>>

\* assert_transaction_failure(result)
AssertTransactionFailure ==
    /\ asserted' = [asserted EXCEPT !.failure = assert_transaction_failure(given)]
    /\ UNCHANGED given
    /\ UNCHANGED <<sandboxVars, cliVars, mockVars, patchVars, txVars, depVars, scopeVars>>

\* assert_event_emitted(result, event, standard=, data=)
AssertEventEmitted ==
    /\ \E event \in {"mint", "burn"}, standard \in {{}, {"nep171"}},
          data \in AssertMatches :
          asserted' = [asserted EXCEPT
                          !.event = assert_event_emitted(given, event,
                                                         standard, data)]
    /\ UNCHANGED given
    /\ UNCHANGED <<sandboxVars, cliVars, mockVars, patchVars, txVars, depVars, scopeVars>>

NextHelpers == AssertTransactionSuccess \/ AssertTransactionFailure

NextEvents == AssertEventEmitted

-----------------------------------------------------------------------------
(* Specifications *)

\* The state after construction: SandboxContext.__init__ / NearSandbox.__init__
\* (home_dir given or not), the test process's environment, MockRPC.__init__.
Init(owns, environs, registered, results) ==
    /\ owns_home \in owns
    /\ process = 0
    /\ tmp_dir = owns_home
    /\ home_exists = TRUE
    /\ procs = <<>>
    /\ pc = "idle"
    /\ elapsed = 0
    /\ ret = NoCall
    /\ nInit = 0
    /\ last_init = [returncode |-> {}, stderr |-> ""]
    /\ init_failed = FALSE
    /\ nProbe = 0
    /\ os_environ \in environs
    /\ cmd_env = [ran |-> "", env |-> <<>>]
    /\ cmd_extra = NoExtra
    /\ responses \in registered
    /\ calls = <<>>
    /\ out = Done("none")
    /\ urlopen = 0
    /\ patchers = <<>>
    /\ patches = <<>>
    /\ scope = "none"
    /\ before_first = 0
    /\ reply = NoReply
    /\ cli_result = NoResult
    /\ tx = NoTx
    /\ evs = NoEvents
    /\ dep_pc = "idle"
    /\ dep_in = [exists |-> TRUE, init_method |-> "None"]
    /\ cmds = <<>>
    /\ deploy_out = NoResult
    /\ init_out = NoResult
    /\ dep = NoDeploy
    /\ given \in results
    /\ asserted = NoneAsserted
    /\ sb_scope = NotScoped

Next == NextSandbox \/ NextCli \/ NextMock \/ NextAssert \/ NextPatch \/ NextTx
        \/ NextDeploy \/ NextAccount \/ NextHelpers
        \/ NextEvents \/ NextScope

Spec == Init(BOOLEAN, EnvDicts("outer"), {<<>>}, {NoGiven}) /\ [][Next]_vars

\* One component at a time; the other two stay as constructed.
SpecSandbox == Init(BOOLEAN, {<<>>}, {<<>>}, {NoGiven}) /\ [][NextSandbox]_vars

\* one sandbox used as a scoped resource
SpecScope == Init(BOOLEAN, {<<>>}, {<<>>}, {NoGiven}) /\ [][NextScope]_vars

SpecCli == Init({TRUE}, EnvDicts("outer"), {<<>>}, {NoGiven}) /\ [][NextCli]_vars

SpecMock == Init({TRUE}, {<<>>}, {<<>>}, {NoGiven}) /\ [][NextMock]_vars

\* a MockRPC with entries registered, queried and asserted on
SpecAssert == Init({TRUE}, {<<>>}, RegisteredPairs, {NoGiven}) /\ [][NextAssert]_vars

\* a MockRPC with entries registered, used as a scope that patches urlopen
SpecPatch == Init({TRUE}, {<<>>}, Registered, {NoGiven}) /\ [][NextPatch]_vars

\* near-cli output parsed, and calls of a contract
SpecTx == Init({TRUE}, {<<>>}, {<<>>}, {NoGiven}) /\ [][NextTx]_vars

\* ContractDeployer.deploy against a sandbox
SpecDeploy == Init({TRUE}, {<<>>}, {<<>>}, {NoGiven}) /\ [][NextDeploy]_vars

\* the assertion helpers applied to a TransactionResult
SpecHelpers == Init({TRUE}, {<<>>}, {<<>>}, GivenResults) /\ [][NextHelpers]_vars

SpecEvents == Init({TRUE}, {<<>>}, {<<>>}, EventResults) /\ [][NextEvents]_vars

\* a MockRPC set up with add_account
SpecAccount == Init({TRUE}, {<<>>}, {<<>>}, {NoGiven}) /\ [][NextAccount]_vars

-----------------------------------------------------------------------------
(* Claims about the sandbox lifecycle *)

\* the node processes of this instance that have not exited
Running == {p \in 1..Len(procs) : Alive(p)}

\* C1: after any call to stop() on a sandbox that owns its temporary
\* directory, whether stop() returned or raised, the TemporaryDirectory has
\* been cleaned up and the instance no longer holds it.
C1_TmpReleasedAfterStop ==
    (owns_home /\ ret.op = "stop") => ~tmp_dir

\* C2: stop() is idempotent: on an instance without a process handle it does
\* not raise, and after one stop() or any number of consecutive stop() calls
\* the instance holds no process handle and no temporary directory.
C2_StopIdempotent ==
    /\ [](ret.op = "stop" => (process = 0 /\ ~tmp_dir))
    /\ [][(process = 0 /\ ret'.op = "stop") => ret'.kind = "return"]_vars
    /\ [][(ret.op = "stop" /\ ret'.op = "stop")
             => UNCHANGED <<process, tmp_dir, home_exists>>]_vars

\* C3: once the node process has exited during start(), before a ready
\* response, no status probe is issued any more, and start() ends by raising
\* the premature-exit SandboxStartupError with the process's exit code, never
\* the readiness-timeout error.
C3_DeadProcessReported ==
    [][(pc \in {"loop", "probe"} /\ ~Alive(process))
          => /\ nProbe' = nProbe
             /\ pc' = "idle" =>
                  ret' = Ret("start", "raise", "premature_exit",
                             procs[process].returncode, "")]_vars

\* C4 as stated: an init command that exits non-zero makes start() raise a
\* SandboxStartupError with the exit code and stderr without spawning a node,
\* and from then on the instance never again holds a node process.
C4_FailedAbsorbing ==
    /\ [](init_failed => (process = 0 /\ Running = {}))
    /\ [][(nInit' = nInit + 1 /\ last_init'.returncode # {0})
             => /\ ret' = Ret("start", "raise", "init_failed",
                              last_init'.returncode, last_init'.stderr)
                /\ procs' = procs]_vars

\* C4 as amended: an init command that exits non-zero makes start() raise a
\* SandboxStartupError with the exit code and stderr, without spawning a node
\* and with no process handle held; the failure is not absorbing: a later
\* start() runs init again, and spawns a node process when init exits zero.
C4_InitFailureRaises ==
    /\ [][(nInit' = nInit + 1 /\ last_init'.returncode # {0})
             => /\ ret' = Ret("start", "raise", "init_failed",
                              last_init'.returncode, last_init'.stderr)
                /\ ErrClass(ret'.what) = "SandboxStartupError"
                /\ procs' = procs
                /\ process' = 0
                /\ pc' = "idle"]_vars
    /\ [][(init_failed /\ nInit' = nInit + 1 /\ last_init'.returncode = {0})
             => /\ Len(procs') = Len(procs) + 1
                /\ process' = Len(procs')
                /\ Alive(process)']_vars
    /\ [](ret.what = "init_failed" => (pc = "idle" /\ process = 0))

\* a start() that followed a failed init has run init again and become ready
C4_Witness ==
    /\ init_failed
    /\ ret = Ret("start", "return", "ready", {}, "")
    /\ is_running

\* C5: start() on an instance that holds a process handle is a no-op: no init
\* command, no spawn, no probe, handle and directory unchanged; and at no
\* time is a node process of the instance alive other than the one it holds.
C5_StartNoop ==
    /\ [](Running \subseteq {process})
    /\ [][(pc = "idle" /\ process # 0 /\ ret'.op = "start" /\ ret' # ret)
             => /\ ret' = Ret("start", "return", "already_running", {}, "")
                /\ UNCHANGED <<process, tmp_dir, home_exists, procs, pc,
                               nInit, last_init, nProbe>>]_vars

\* start() was called on a running sandbox and returned at once
C5_Witness ==
    /\ ret = Ret("start", "return", "already_running", {}, "")
    /\ is_running
    /\ nInit = 1

-----------------------------------------------------------------------------
(* Claims about run_near_cli *)

\* C6: the environment every command run through the sandbox receives has
\* NEAR_ENV = localnet, the sandbox's rpc_url and the sandbox's home_dir,
\* whatever overrides the caller supplied.
C6_ComputedEnvAuthoritative ==
    cmd_env.ran # "" =>
        \A k \in ComputedKeys :
            k \in DOMAIN cmd_env.env /\ cmd_env.env[k] = Computed[k]

-----------------------------------------------------------------------------
(* Claims about MockRPC.query *)

\* the params of a call as requested: no params means the empty mapping
Requested(params) == IF params = PNone THEN PDict(<<>>) ELSE params

\* the entry has the requested method and its matcher, if present, is a
\* key/value subset of the requested params
Satisfies(resp, method, params) ==
    /\ resp.method = method
    /\ resp.match # PNone =>
          \A k \in DOMAIN resp.match.val :
              /\ params.tag = "dict"
              /\ k \in DOMAIN params.val
              /\ params.val[k] = resp.match.val[k]

\* the entry carries an error (an empty error mapping is none)
CarriesError(resp) == resp.error \notin {PNone, PDict(<<>>)}

\* the entries that satisfy the last query
Satisfying ==
    {i \in 1..Len(responses) :
        Satisfies(responses[i], out.method, Requested(out.params))}

C8_FirstMatchWins ==
    (out.op = "query" /\ Satisfying # {}) =>
        LET first == CHOOSE i \in Satisfying : \A j \in Satisfying : i <= j
            resp == responses[first]
        IN  IF CarriesError(resp)
              THEN /\ out.kind = "raise"
                   /\ out.err = "mock_error"
                   /\ "message" \in DOMAIN resp.error.val
                        => out.msg = resp.error.val["message"]
              ELSE /\ out.kind = "return"
                   /\ out.result = resp.result

\* two entries satisfy the call and would answer differently; the first did
C8_Witness ==
    /\ out.op = "query"
    /\ Satisfying = {1, 2}
    /\ responses[1].match # PNone
    /\ ~CarriesError(responses[1])
    /\ CarriesError(responses[2])
    /\ out.kind = "return"

\* C9 as stated: for every entry registered with a result, query returns that
\* result for every params that is a superset of the entry's matcher,
\* whatever other entries are registered.
C9_EveryEntryAnswers ==
    out.op = "query" =>
        \A i \in Satisfying :
            ~CarriesError(responses[i]) =>
                (out.kind = "return" /\ out.result = responses[i].result)

\* C9 as amended: for every entry registered with a result, query returns
\* that result for every params that is a superset of the entry's matcher,
\* provided no earlier-registered entry satisfies the same call.
C9_UnshadowedEntryAnswers ==
    out.op = "query" =>
        \A i \in Satisfying :
            (/\ ~CarriesError(responses[i])
             /\ \A j \in Satisfying : i <= j)
                => (out.kind = "return" /\ out.result = responses[i].result)

\* the second entry answers a call whose params are a strict superset of its
\* matcher, the first entry being of another method
C9_Witness ==
    /\ out.op = "query"
    /\ Len(responses) = 2
    /\ Satisfying = {2}
    /\ responses[1].method # out.method
    /\ responses[2].match = PDict("a" :> 1)
    /\ out.params = PDict(("a" :> 1) @@ ("b" :> 2))
    /\ out.kind = "return"
    /\ out.result = responses[2].result

-----------------------------------------------------------------------------
(* Claims about the MockRPC call log: assertions and reset *)

\* the params of a recorded call are a key/value superset of the matcher;
\* an absent matcher asks nothing
Superset(params, match) ==
    match # PNone =>
        \A k \in DOMAIN match.val :
            /\ params.tag = "dict"
            /\ k \in DOMAIN params.val
            /\ params.val[k] = match.val[k]

\* the log holds a record of the method whose params are a superset of match
Logged(method, match) ==
    \E i \in 1..Len(calls) :
        calls[i].method = method /\ Superset(calls[i].params, match)

\* C11: assert_called(method, match) succeeds iff the call log holds at least
\* one record with that method whose params are a superset of match (any
\* record with that method when match is absent); assert_not_called(method)
\* succeeds iff the log holds no record with that method; each fails by
\* raising AssertionError, and neither changes the log or the registered
\* entries.
C11_AssertionsExact ==
    /\ [](out.op = "assert_called" =>
            /\ out.kind = "return" <=> Logged(out.method, out.params)
            /\ out.kind = "raise" => out.err = "AssertionError")
    /\ [](out.op = "assert_not_called" =>
            /\ out.kind = "return" <=> ~Logged(out.method, PNone)
            /\ out.kind = "raise" => out.err = "AssertionError")
    /\ [][out'.op \in {"assert_called", "assert_not_called"}
             => UNCHANGED <<calls, responses>>]_vars

\* assert_called with a matcher succeeded on a log whose first record of the
\* method does not match and whose second is a strict superset
C11_Witness ==
    /\ out.op = "assert_called"
    /\ out.kind = "return"
    /\ out.params = PDict("a" :> 1)
    /\ Len(responses) = 1
    /\ Len(calls) = 2
    /\ calls[1] = [method |-> out.method, params |-> PDict("a" :> 2)]
    /\ calls[2] = [method |-> out.method,
                   params |-> PDict(("a" :> 1) @@ ("b" :> 2))]

\* "len(self._calls)"
call_count == Len(calls)

\* C12: reset() empties the call log and leaves the registered entries and
\* their order unchanged: after reset() call_count is 0, assert_not_called
\* succeeds for every method, and every query returns or raises exactly as
\* it would have before the reset.
C12_ResetFrame ==
    /\ [](out.op = "reset" =>
            /\ call_count = 0
            /\ \A m \in Methods : AssertNotCalledEnd(calls, m).kind = "return")
    /\ [][out'.op = "reset" =>
            /\ responses' = responses
            /\ \A q \in QueryInputs :
                  Dispatch(responses', q[1], OrEmpty(q[2]))
                      = Dispatch(responses, q[1], OrEmpty(q[2]))]_vars

\* reset() has run on a MockRPC with two entries registered, one of them
\* carrying an error
C12_Witness ==
    /\ out.op = "reset"
    /\ Len(responses) = 2
    /\ CarriesError(responses[1])
    /\ ~CarriesError(responses[2])
    /\ calls = <<>>

-----------------------------------------------------------------------------
(* Claims about patch_urlopen *)

\* the interceptors this MockRPC has installed
Interceptors == 1..Len(patchers)

\* C13: after a MockRPC scope exits, normally or by exception,
\* urllib.request.urlopen is again the one that was in place before the
\* first patch_urlopen() of that scope, for any number of patch_urlopen()
\* calls made inside the scope, and no interceptor installed by the
\* instance remains active.
C13_UrlopenRestored ==
    scope \in {"exited", "raised"} =>
        /\ urlopen = before_first
        /\ urlopen \notin Interceptors

-----------------------------------------------------------------------------
(* Claims about call_contract, the parser and TransactionResult.events *)

\* the lines the last command wrote
Output == Combined(cli_result.stdout, cli_result.stderr)

\* C14: call_contract returns a result with status = failure whenever the
\* call command's exit code is non-zero, for every stdout/stderr text; when
\* the exit code is zero the returned status is exactly the parser's status.
C14_ExitCodeAuthoritative ==
    tx.op = "call_contract" =>
        /\ tx.raised = ""
        /\ cli_result.returncode # 0 => tx.status = "failure"
        /\ cli_result.returncode = 0 =>
              tx.status =
                parse_cli_output(cli_result.stdout, cli_result.stderr).status

\* (a) some line decoded as a JSON object has a status object with a
\* Failure member
JsonFailure(lines) ==
    \E i \in 1..Len(lines) :
        /\ lines[i].starts = "{"
        /\ lines[i].valid
        /\ lines[i].json.status.tag = "dict"
        /\ "Failure" \in lines[i].json.status.keys

\* (b) the text contains a failure keyword and not the success keyword
KeywordFailure(lines) ==
    /\ \E i \in 1..Len(lines) : lines[i].kw \cap failure_indicators # {}
    /\ \A i \in 1..Len(lines) : SuccessKeyword \notin lines[i].kw

\* the text mentions "error" in a log line only and has no JSON status block
ErrorInLogOnly(lines) ==
    /\ \E i \in 1..Len(lines) : "error" \in lines[i].kw
    /\ \A i \in 1..Len(lines) :
          /\ lines[i].kw \cap failure_indicators # {}
                => (lines[i].starts = "Log [" /\ lines[i].kw \subseteq {"error"})
          /\ ~(lines[i].valid /\ lines[i].json.status.tag # "absent")

\* C17: the status the parser returns is success or failure, and it is
\* failure exactly when (a) some line parsed as a JSON object has a status
\* object indicating failure, or (b) the combined text contains one of the
\* failure keywords and does not contain the success keyword; output that
\* mentions "error" only in a log line, with no JSON status block, is
\* classified success only if the text also contains the success keyword.
C17_StatusRule ==
    (tx.op = "parse" /\ tx.raised = "") =>
        /\ tx.status \in {"success", "failure"}
        /\ tx.status = "failure"
              <=> (JsonFailure(Output) \/ KeywordFailure(Output))
        /\ ErrorInLogOnly(Output) =>
              (tx.status = "success" <=> SuccessKeyword \in Keywords(Output))

\* an "error" in a log line, no status block, and the success keyword on
\* another line made the status success
C17_Witness ==
    /\ tx.op = "parse"
    /\ tx.status = "success"
    /\ ErrorInLogOnly(Output)
    /\ Len(cli_result.stdout) = 2
    /\ cli_result.stderr = <<>>
    /\ Len(tx.logs) = 1

\* C18: the parser never raises: for every stdout and stderr text, including
\* lines that are valid JSON objects whose transaction_outcome, transaction,
\* status or logs members have an unexpected shape, it returns a
\* TransactionResult.
C18_ParserNeverRaises ==
    tx.op = "parse" => tx.raised = ""

\* the log lines that carry the event marker and decode
WellFormed ==
    {i \in 1..Len(tx.logs) :
        tx.logs[i].prefix = "EVENT_JSON:" /\ JsonLoads(tx.logs[i].rest).valid}

\* the k-th of them in log order
KthWellFormed(k) ==
    CHOOSE i \in WellFormed : Cardinality({j \in WellFormed : j < i}) = k - 1

\* C19: TransactionResult.events is a function of logs: it is empty when no
\* log line carries the event marker, for N well-formed and M malformed
\* marked lines it is exactly the N decoded events in log order, and
\* computing it never changes logs, status, hash or raw.
C19_EventsOfLogs ==
    /\ [](evs.read =>
            /\ (\A i \in 1..Len(tx.logs) : tx.logs[i].prefix # "EVENT_JSON:")
                  => evs.value = <<>>
            /\ Len(evs.value) = Cardinality(WellFormed)
            /\ \A k \in 1..Len(evs.value) :
                  evs.value[k] = JsonLoads(tx.logs[KthWellFormed(k)].rest).value)
    /\ [][evs'.read => tx' = tx]_vars

\* two events were decoded from logs that also hold an unmarked line and a
\* marked line that does not decode
C19_Witness ==
    /\ evs.read
    /\ Len(tx.logs) = 4
    /\ Cardinality(WellFormed) = 2
    /\ evs.value = <<EvDict({"mint"}, {}, NoData), EvDict({"burn"}, {}, NoData)>>

-----------------------------------------------------------------------------
(* Claims about ContractDeployer.deploy *)

\* what the parser makes of the output of the deploy command / the init call
DeployParsed == parse_cli_output(deploy_out.stdout, deploy_out.stderr)
InitParsed == parse_cli_output(init_out.stdout, init_out.stderr)

\* the init call of this deploy() has exited
InitRan == ~init_out.running

\* C15 as stated: deploy(..., init_method given) where the deploy command
\* succeeds and the init call fails (exits non-zero, or writes output that
\* parses as a failure) returns a TransactionResult with status = failure;
\* whenever deploy returns with an init method given, the returned result is
\* the parsed output of the init call.
C15_InitFailureReturned ==
    /\ (InitRan /\ (init_out.returncode # 0 \/ InitParsed.status = "failure"))
          => (dep.kind = "return" /\ dep.result.status = "failure")
    /\ (dep.kind = "return" /\ InitGiven(dep_in.init_method))
          => (InitRan /\ dep.result = Tx("deploy", InitParsed))

\* C15 as amended: deploy(..., init_method given) where the deploy command
\* exits zero and the init call exits zero with output that parses as a
\* failure returns a TransactionResult with status = failure; an init call
\* that exits non-zero makes deploy raise ContractDeployError; whenever
\* deploy returns with an init method given, the returned result is the
\* parsed output of the init call and never the deploy step's own result.
C15_InitResultReturned ==
    /\ (InitRan /\ init_out.returncode = 0 /\ InitParsed.status = "failure")
          => (dep.kind = "return" /\ dep.result.status = "failure")
    /\ (InitRan /\ init_out.returncode # 0)
          => dep = DeployRaised("ContractDeployError", "init_failed")
    /\ (dep.kind = "return" /\ InitGiven(dep_in.init_method))
          => (InitRan /\ dep.result = Tx("deploy", InitParsed))

\* the deploy command's output parses as success with a hash, the init call
\* exited zero with a failure status, and deploy returned the failure
C15_Witness ==
    /\ dep.kind = "return"
    /\ dep_in.init_method = "new"
    /\ DeployParsed.status = "success"
    /\ DeployParsed.tx_hash = "H1"
    /\ init_out.returncode = 0
    /\ dep.result.status = "failure"
    /\ dep.result.transaction_hash = ""

\* C16: deploy runs its steps in the order artifact check, deploy command,
\* init call, each only if the previous one succeeded: a missing artifact
\* raises ContractDeployError before any external command is run, and a
\* non-zero exit of the deploy command raises ContractDeployError without
\* the init call ever being issued.
C16_StepsInOrder ==
    /\ [](cmds \in {<<>>, <<"deploy">>, <<"deploy", "call">>})
    /\ [](~dep_in.exists =>
            /\ cmds = <<>>
            /\ dep = DeployRaised("ContractDeployError", "not_found"))
    /\ []((~deploy_out.running /\ deploy_out.returncode # 0) =>
            /\ cmds = <<"deploy">>
            /\ dep = DeployRaised("ContractDeployError", "deploy_failed"))
    /\ [][cmds' # cmds =>
            \/ cmds' = <<>> /\ ~dep_in'.exists
            \/ cmds' = <<"deploy">> /\ dep_in'.exists /\ dep_pc = "idle"
            \/ /\ cmds' = Append(cmds, "call")
               /\ cmds = <<"deploy">>
               /\ ~deploy_out'.running
               /\ deploy_out'.returncode = 0
               /\ InitGiven(dep_in.init_method)]_vars

\* a deploy with an init method ended at the failed deploy command, whose
\* output reads as a success
C16_Witness ==
    /\ dep = DeployRaised("ContractDeployError", "deploy_failed")
    /\ dep_in.init_method = "new"
    /\ cmds = <<"deploy">>
    /\ DeployParsed.status = "success"
    /\ init_out.running

-----------------------------------------------------------------------------
(* Claims about add_account *)

\* the decimal digits of a small natural number, most significant first
RECURSIVE DigitsOf(_)
DigitsOf(n) == IF n < 10 THEN <<n>> ELSE Append(DigitsOf(n \div 10), n % 10)

RECURSIVE Pow5(_)
Pow5(n) == IF n = 0 THEN 1 ELSE 5 * Pow5(n - 1)

\* balance * 10^24 exactly, as a decimal string: num / 2^shift * 10^24 is
\* num * 5^shift followed by 24 - shift zeros
ExactYocto(balance) ==
    IF balance.num = 0 THEN <<0>>
    ELSE DigitsOf(balance.num * Pow5(balance.shift))
             \o Zeros(YoctoExponent - balance.shift)

\* C20: after add_account(account, balance_near=b), the view_account query for
\* that account returns a record whose amount is exactly b * 10^24 as a
\* decimal string; for add_account("alice.near", balance_near=50.0) it is
\* "50000000000000000000000000".
C20_AmountExact ==
    (out.op = "query" /\ out.kind = "return" /\ Satisfying # {}) =>
        LET first == CHOOSE i \in Satisfying : \A j \in Satisfying : i <= j
        IN  \A b \in Balances :
                responses[first] = AccountEntry(out.params.val["account_id"], b)
                    => /\ out.result.amount = ExactYocto(b)
                       /\ b = Balance(50, 0) =>
                            out.result.amount = <<5, 0>> \o Zeros(24)

-----------------------------------------------------------------------------
(* Claims about the assertion helpers *)

\* part occurs in msg as a run of consecutive characters
Contains(msg, part) ==
    \E i \in 0..(Len(msg) - Len(part)) : SubSeq(msg, i + 1, i + Len(part)) = part

RECURSIVE ShownFrom(_, _)
ShownFrom(text, i) ==
    IF i > Len(text) THEN <<>>
    ELSE (IF text[i] = "\\" THEN <<"\\", "\\">>
          ELSE IF /\ text[i] = "'"
                  /\ \E k \in 1..Len(text) : text[k] = "\""
            THEN <<"\\", "'">>
          ELSE <<text[i]>>)
         \o ShownFrom(text, i + 1)

Shown(line) == ShownFrom(Text(line), 1)

DataItems(evt) ==
    IF evt.data.tag = "absent" THEN <<PDict(<<>>)>> ELSE evt.data.items

\* the events of the given result that satisfy the arguments of the last
\* assert_event_emitted, as indices into result.events
Emitted(args) ==
    LET evts == events(given.logs)
    IN  {i \in 1..Len(evts) :
            /\ evts[i].tag = "dict"
            /\ evts[i].event = {args.event}
            /\ args.standard # {} => evts[i].standard = args.standard
            /\ args.data.tag # "none" =>
                  \E k \in 1..Len(DataItems(evts[i])) :
                      /\ DataItems(evts[i])[k].tag = "dict"
                      /\ is_subset(args.data.val, DataItems(evts[i])[k].val)}

\* C22: assert_event_emitted(result, event, standard, data) returns the
\* first event of result.events, in log order, whose event name equals
\* event, whose standard equals standard when one is given, and, when data
\* is given, at least one entry of whose data sequence is a superset of
\* data; when no event of result.events satisfies this it raises the
\* library's AssertionError and never any other error, for every content of
\* result.events.
C22_FirstEventOrAssertionError ==
    asserted.event.ran =>
        LET found == Emitted(asserted.event.args)
        IN  IF found = {}
              THEN asserted.event.raised = "AssertionError"
              ELSE /\ asserted.event.raised = ""
                   /\ asserted.event.value =
                        events(given.logs)[CHOOSE i \in found :
                                               \A j \in found : i <= j]

\* C30: for every TransactionResult, whatever its status (success, failure
\* or pending), exactly one of assert_transaction_success and
\* assert_transaction_failure raises and the other returns; a pending result
\* is accepted by assert_transaction_failure and rejected by
\* assert_transaction_success.
C30_ExactlyOneRaises ==
    /\ asserted.success.ran /\ asserted.failure.ran =>
          (asserted.success.raised = "AssertionError")
             # (asserted.failure.raised = "AssertionError")
    /\ asserted.success.ran /\ asserted.failure.ran =>
          {asserted.success.raised, asserted.failure.raised}
             = {"", "AssertionError"}
    /\ asserted.success.ran /\ given.status = "pending" =>
          asserted.success.raised = "AssertionError"
    /\ asserted.failure.ran /\ given.status = "pending" =>
          asserted.failure.raised = ""

\* both helpers were applied to a pending result
C30_Witness ==
    /\ given.status = "pending"
    /\ asserted.success.ran
    /\ asserted.failure.ran
    /\ asserted.failure.raised = ""

-----------------------------------------------------------------------------
(* Claims about start(), the health-check loop and scoped use *)

\* C23: the health-check loop of start() ends in exactly one of three ways:
\* it returns after a status response containing a result field, it raises
\* on premature process exit, or it raises SandboxStartupError exactly once
\* when the startup timeout elapses; every failed or unusable probe before
\* that (connection refused, transient I/O error, a response without a
\* result field or with an undecodable body) is retried silently and never
\* escapes start() as a different error.
C23_LoopEndsThreeWays ==
    [][(pc \in {"loop", "probe"} /\ pc' = "idle") =>
          \/ /\ pc = "probe"
             /\ ret' = Ret("start", "return", "ready", {}, "")
          \/ /\ ret' = Ret("start", "raise", "premature_exit",
                           procs[process].returncode, "")
             /\ ~Alive(process)
             /\ ErrClass(ret'.what) = "SandboxStartupError"
          \/ /\ ret' = Ret("start", "raise", "not_ready", {}, "")
             /\ ~(elapsed < StartupTicks)
             /\ ErrClass(ret'.what) = "SandboxStartupError"]_vars

\* C26: whenever start() returns normally, the instance holds a node
\* process that has not exited and for which a status response containing a
\* result field has been observed since it was spawned; this holds for
\* every sequence of calls, including a start() issued after an earlier
\* start() on the same instance raised on readiness timeout or premature
\* exit.
C26_StartReturnsReady ==
    [][(ret' # ret /\ ret'.op = "start" /\ ret'.kind = "return") =>
          /\ process' # 0
          /\ procs'[process'].returncode = {}
          /\ procs'[process'].ready]_vars

\* C27: when a sandbox is used as a scoped resource, through
\* `with SandboxContext()` / `with NearSandbox()` or through
\* sandbox_context(), then once the scope has been left on any path,
\* including start() raising after the node process was already spawned, no
\* node process spawned by that sandbox is still running and its temporary
\* directory has been released.
C27_ScopeLeavesNothing ==
    sb_scope.at = "left" =>
        /\ Running = {}
        /\ tmp_dir = FALSE
        /\ owns_home => ~home_exists

\* C28: in every reachable state in which a sandbox constructed without a
\* caller-supplied home directory holds a node process, the instance still
\* owns the temporary directory that process runs in, so that the next
\* stop() deletes it; this holds over every sequence of start() and stop(),
\* including start() called again after stop().
C28_TmpOwnedWhileHeld ==
    /\ []((owns_home /\ process # 0) => tmp_dir = TRUE)
    /\ [][(owns_home /\ process # 0 /\ process' = 0) => ~home_exists']_vars

-----------------------------------------------------------------------------
(* Claims about the registered entries and the interceptor *)

\* the entry carries a result
CarriesResult(resp) == resp.result \in Results

\* C24: in every reachable state of a MockRPC, each registered entry
\* carries either a result or an error but never both, whatever sequence of
\* add_response, add_account and add_view_result calls was made.
C24_ResultXorError ==
    \A i \in 1..Len(responses) :
        CarriesResult(responses[i]) # CarriesError(responses[i])

\* C29: while a MockRPC interceptor is installed, every intercepted
\* transport request that carries a body appends exactly one call record and
\* always yields a response: when the dispatch raises (an error entry or no
\* matching entry) the error is not propagated to the caller but returned as
\* a response body of the form {error: {message}} carrying the error text,
\* and otherwise the body is {result: <the entry's result>} with the
\* request's id.
C29_InterceptedAnswered ==
    [][(urlopen # 0 /\ (reply' # reply \/ calls' # calls) /\ reply'.req.data) =>
          /\ Len(calls') = Len(calls) + 1
          /\ SubSeq(calls', 1, Len(calls)) = calls
          /\ reply'.via = "fake"
          /\ reply'.raised = ""
          /\ out'.op = "query"
          /\ IF out'.kind = "raise"
               THEN /\ reply'.body = "error"
                    /\ reply'.message.text # ""
                    /\ reply'.message.msg = out'.msg
                    /\ reply'.message.method = out'.msg_method
                    /\ reply'.message.params = out'.msg_params
               ELSE /\ reply'.body = "result"
                    /\ reply'.result = out'.result
                    /\ reply'.id = IdOf(reply'.req)]_vars

-----------------------------------------------------------------------------
(* Claims about the parsed hash *)

\* the 44-character token that follows the marker phrase on the line, or
\* that is the whole line ("" when the line has neither)
HashOf(line) ==
    CASE line.log.rest = "Transaction Id H1" -> "H1"
      [] line.log.rest = "Transaction Id H3" -> "H3"
      [] line.log.rest = "H5" -> "H5"
      [] OTHER -> ""

\* the lines of the output that have such a token
WithHash == {i \in 1..Len(Output) : HashOf(Output[i]) # ""}

\* C25: the parsed hash is the first alphanumeric token of exactly 44
\* characters that follows a transaction-id marker phrase, or that stands
\* alone on its own line, taken in line order over the whole output: a later
\* marker line or a later JSON line never replaces a hash already found, and
\* a token that precedes the marker on its line is not taken.
C25_FirstHashKept ==
    (tx.op = "parse" /\ tx.raised = "") =>
        /\ WithHash # {} =>
              tx.transaction_hash =
                 HashOf(Output[CHOOSE i \in WithHash : \A j \in WithHash : i <= j])
        /\ tx.transaction_hash # "H4"
====
